---- MODULE Spec2Model ----
(***************************************************************************)
(* Data-writer registry and writer resolution of dlt                       *)
(* (dlt/common/data_writers/writers.py).                                   *)
(*                                                                         *)
(* The registry (ALL_WRITERS, NATIVE_FORMAT_WRITERS) is module-level data  *)
(* built once at import.  resolve_best_writer_spec and                     *)
(* get_best_writer_spec are modelled statement by statement: every         *)
(* try/except block and every loop iteration is one step of the caller,    *)
(* and the registry indexes and class_factory lookups a call performs are  *)
(* recorded in the order the code performs them.                           *)
(***************************************************************************)
EXTENDS Integers, Sequences, FiniteSets, TLC

\* ------------------------------------------------------------------ bounds

\* longest possible_file_formats list a caller passes
MaxCandidates == 3

\* ------------------------------------------------------------ vocabularies

\* TDataItemFormat = Literal["arrow", "object"]
TDataItemFormat == {"arrow", "object"}

\* TLoaderFileFormat: the formats the registered writers declare, and
\* "reference", a loader file format no data writer produces
TLoaderFileFormat ==
    {"jsonl", "typed-jsonl", "insert_values", "parquet", "csv", "reference"}

\* Python's None, as the default of preferred_format
None == "None"

\* FileWriterSpec(NamedTuple): positional fields file_format, data_item_format,
\* file_extension, is_binary_format, supports_schema_changes, and the two
\* defaulted fields requires_destination_capabilities, supports_compression
FileWriterSpec(ff, dif, ext, bin, changes, caps, compr) ==
    [file_format |-> ff,
     data_item_format |-> dif,
     file_extension |-> ext,
     is_binary_format |-> bin,
     supports_schema_changes |-> changes,
     requires_destination_capabilities |-> caps,
     supports_compression |-> compr]

\* the fields of FileWriterSpec
SpecFields ==
    {"file_format", "data_item_format", "file_extension", "is_binary_format",
     "supports_schema_changes", "requires_destination_capabilities",
     "supports_compression"}

\* ------------------------------------------------------------ class graph

\* direct base classes, in the order of the class statement
Bases(cls) ==
    CASE cls = "JsonlWriter" -> <<"DataWriter">>
      [] cls = "TypedJsonlListWriter" -> <<"JsonlWriter">>
      [] cls = "InsertValuesWriter" -> <<"DataWriter">>
      [] cls = "ParquetDataWriter" -> <<"DataWriter">>
      [] cls = "CsvWriter" -> <<"DataWriter">>
      [] cls = "ArrowToParquetWriter" -> <<"ParquetDataWriter">>
      [] cls = "ArrowToCsvWriter" -> <<"DataWriter">>
      [] cls = "ArrowToInsertValuesWriter" ->
            <<"ArrowToObjectAdapter", "InsertValuesWriter">>
      [] cls = "ArrowToJsonlWriter" -> <<"ArrowToObjectAdapter", "JsonlWriter">>
      [] cls = "ArrowToTypedJsonlListWriter" ->
            <<"ArrowToObjectAdapter", "TypedJsonlListWriter">>
      [] OTHER -> <<>>

RECURSIVE issubclass(_, _)
\* issubclass(cls, base): base is cls or one of its ancestors
issubclass(cls, base) ==
    \/ cls = base
    \/ \E k \in DOMAIN Bases(cls) : issubclass(Bases(cls)[k], base)

\* writer_spec() of the row-object and columnar writer classes
JsonlWriter_writer_spec ==
    FileWriterSpec("jsonl", "object", "jsonl", TRUE, "True", FALSE, TRUE)

TypedJsonlListWriter_writer_spec ==
    FileWriterSpec("typed-jsonl", "object", "typed-jsonl", TRUE, "True", FALSE, TRUE)

InsertValuesWriter_writer_spec ==
    FileWriterSpec("insert_values", "object", "insert_values", FALSE, "Buffer",
                   TRUE, TRUE)

ParquetDataWriter_writer_spec ==
    FileWriterSpec("parquet", "object", "parquet", TRUE, "Buffer", TRUE, FALSE)

CsvWriter_writer_spec ==
    FileWriterSpec("csv", "object", "csv", FALSE, "False", FALSE, TRUE)

ArrowToParquetWriter_writer_spec ==
    FileWriterSpec("parquet", "arrow", "parquet", TRUE, "False", FALSE, FALSE)

ArrowToCsvWriter_writer_spec ==
    FileWriterSpec("csv", "arrow", "csv", TRUE, "False", FALSE, TRUE)

RECURSIVE writer_spec(_)

\* a convert_spec that keeps the wrapped writer's representation
convert_spec_no_replace(base) ==
    writer_spec(base)

\* a convert_spec that rebuilds the tuple from its five positional fields, so
\* the two defaulted fields fall back to their defaults
convert_spec_positional(base) ==
    LET spec == writer_spec(base) IN
    FileWriterSpec(spec.file_format, "arrow", spec.file_extension,
                   spec.is_binary_format, spec.supports_schema_changes,
                   FALSE, FALSE)

\* ArrowToObjectAdapter.convert_spec:
\*   spec = base.writer_spec(); return spec._replace(data_item_format="arrow")
convert_spec(base) ==
    LET spec == writer_spec(base) IN
    [spec EXCEPT !.data_item_format = "arrow"]

\* writer_spec() of the adapter-built classes: cls.convert_spec(<wrapped>)
ArrowToInsertValuesWriter_writer_spec ==
    convert_spec("InsertValuesWriter")

ArrowToJsonlWriter_writer_spec ==
    convert_spec("JsonlWriter")

ArrowToTypedJsonlListWriter_writer_spec ==
    convert_spec("TypedJsonlListWriter")

\* the classmethod writer_spec, dispatched on the class
writer_spec(cls) ==
    CASE cls = "JsonlWriter" -> JsonlWriter_writer_spec
      [] cls = "TypedJsonlListWriter" -> TypedJsonlListWriter_writer_spec
      [] cls = "InsertValuesWriter" -> InsertValuesWriter_writer_spec
      [] cls = "ParquetDataWriter" -> ParquetDataWriter_writer_spec
      [] cls = "CsvWriter" -> CsvWriter_writer_spec
      [] cls = "ArrowToParquetWriter" -> ArrowToParquetWriter_writer_spec
      [] cls = "ArrowToInsertValuesWriter" -> ArrowToInsertValuesWriter_writer_spec
      [] cls = "ArrowToJsonlWriter" -> ArrowToJsonlWriter_writer_spec
      [] cls = "ArrowToTypedJsonlListWriter" ->
            ArrowToTypedJsonlListWriter_writer_spec
      [] cls = "ArrowToCsvWriter" -> ArrowToCsvWriter_writer_spec

\* ---------------------------------------------------------------- registry

\* an is_native_writer that lost its adapter test
is_native_writer_always(writer_type) ==
    TRUE

\* is_native_writer: not issubclass(writer_type, ArrowToObjectAdapter)
is_native_writer(writer_type) ==
    ~ issubclass(writer_type, "ArrowToObjectAdapter")

ALL_WRITERS ==
    <<"JsonlWriter",
      "TypedJsonlListWriter",
      "InsertValuesWriter",
      "ParquetDataWriter",
      "CsvWriter",
      "ArrowToParquetWriter",
      "ArrowToInsertValuesWriter",
      "ArrowToJsonlWriter",
      "ArrowToTypedJsonlListWriter",
      "ArrowToCsvWriter">>

RECURSIVE native_writers_from(_, _, _)

\* the generator without its data_item_format test
native_writers_any_format(writers, dif, k) ==
    IF k > Len(writers) THEN <<>>
    ELSE IF is_native_writer(writers[k])
         THEN <<writers[k]>> \o native_writers_from(writers, dif, k + 1)
         ELSE native_writers_from(writers, dif, k + 1)

\* the generator of lines 665-669 and 671-675 from position k on:
\*   tuple(writer for writer in ALL_WRITERS
\*         if writer.writer_spec().data_item_format == dif and is_native_writer(writer))
native_writers_from(writers, dif, k) ==
    IF k > Len(writers) THEN <<>>
    ELSE IF /\ writer_spec(writers[k]).data_item_format = dif
            /\ is_native_writer(writers[k])
         THEN <<writers[k]>> \o native_writers_from(writers, dif, k + 1)
         ELSE native_writers_from(writers, dif, k + 1)

\* NATIVE_FORMAT_WRITERS: per representation, the native writers of ALL_WRITERS
NATIVE_FORMAT_WRITERS ==
    [dif \in TDataItemFormat |-> native_writers_from(ALL_WRITERS, dif, 1)]

\* the exception class_factory raises when no writer matches
FileFormatForItemFormatNotFound == "FileFormatForItemFormatNotFound"

\* `except DataWriterNotFound` catches FileFormatForItemFormatNotFound
IsDataWriterNotFound(exc) ==
    exc \in {"DataWriterNotFound", FileFormatForItemFormatNotFound,
             "FileSpecNotFound", "SpecLookupFailed"}

RECURSIVE class_factory_from(_, _, _, _)
\* the for loop of class_factory from position k on
class_factory_from(file_format_, data_item_format_, writers, k) ==
    IF k > Len(writers) THEN FileFormatForItemFormatNotFound
    ELSE LET spec == writer_spec(writers[k]) IN
         IF /\ spec.file_format = file_format_
            /\ spec.data_item_format = data_item_format_
         THEN writers[k]
         ELSE class_factory_from(file_format_, data_item_format_, writers, k + 1)

\* a class_factory whose loop starts at the second writer
class_factory_skip_first(file_format_, data_item_format_, writers) ==
    class_factory_from(file_format_, data_item_format_, writers, 2)

\* a class_factory that compares the file format alone
class_factory_by_file_format(file_format_, data_item_format_, writers) ==
    LET hits == {k \in DOMAIN writers :
                    writer_spec(writers[k]).file_format = file_format_} IN
    IF hits = {} THEN FileFormatForItemFormatNotFound
    ELSE writers[CHOOSE k \in hits : \A j \in hits : k <= j]

\* DataWriter.class_factory: the first writer of `writers` declaring the pair,
\* or the raised FileFormatForItemFormatNotFound
class_factory(file_format_, data_item_format_, writers) ==
    class_factory_from(file_format_, data_item_format_, writers, 1)

\* -------------------------------------------------------------------- state

VARIABLES
    pc,                     \* the statement the caller is at
    fn,                     \* the function being executed, or None
    item_format,            \* argument item_format
    possible_file_formats,  \* argument possible_file_formats (resolve)
    preferred_format,       \* argument preferred_format (resolve), or None
    file_format,            \* argument file_format (get_best), or None
    native_writers,         \* local native_writers, <<>> before it is bound
    idx,                    \* position of the running for loop
    result,                 \* how the call ended
    reads,                  \* registry indexes read by the call, in order
    lookups,                \* class_factory calls of the call, in order
    lk_pc,                  \* writer_class_from_spec: "idle" or "done"
    lk_spec,                \* writer_class_from_spec: argument spec
    lk_result,              \* writer_class_from_spec: class returned or error
    self,                   \* the writer instance: its class and attributes
    sink,                   \* what has been written to the bound file self._f
    call,                   \* the last call made on the instance
    hist,                   \* what has happened to the instance so far
    x_fn,                   \* a call outside the writers: the function, or None
    x_pc,                   \* a call outside the writers: the statement it is at
    x_result,               \* a call outside the writers: how it ended
    state,                  \* migrate_pipeline_state: the caller's state dict
    from_engine,            \* migrate_pipeline_state: local from_engine
    to_engine,              \* migrate_pipeline_state: argument to_engine
    m_call,                 \* the arguments of the call and the steps it applied
    state_table,            \* the load ids of the pipeline's state records
    loads_table,            \* the load ids that have a record in the loads table
    offset,                 \* get_stored_state: local offset
    state_records,          \* get_stored_state: the page being scanned
    g_idx,                  \* get_stored_state: position of the for loop
    g_pages,                \* the pages get_stored_state has requested
    p_args                  \* the arguments of a call of a pure function

\* the state of a resolve_best_writer_spec / get_best_writer_spec call
rvars ==
    <<pc, fn, item_format, possible_file_formats, preferred_format, file_format,
      native_writers, idx, result, reads, lookups>>

\* the state of a writer_class_from_spec call
svars == <<lk_pc, lk_spec, lk_result>>

\* the state of a writer instance and its sink
wvars == <<self, sink, call, hist>>

\* the state of a migrate_pipeline_state call
mvars == <<state, from_engine, to_engine, m_call>>

\* the state of a get_stored_state call and of the tables it reads
gvars == <<state_table, loads_table, offset, state_records, g_idx, g_pages>>

\* the state of the calls outside the data writers
xvars == <<x_fn, x_pc, x_result, mvars, gvars, p_args>>

vars == <<rvars, svars, wvars, xvars>>

\* a spec-shaped placeholder for calls that returned nothing
NoSpec == FileWriterSpec(None, None, None, FALSE, None, FALSE, FALSE)

NoResult == [kind |-> "none", spec |-> NoSpec, exc |-> None]

Returned(spec) == [kind |-> "return", spec |-> spec, exc |-> None]

Raised(exc) == [kind |-> "raise", spec |-> NoSpec, exc |-> exc]

\* all sequences over S of length 0..n
SeqsUpTo(S, n) == UNION {[1..k -> S] : k \in 0..n}

\* one class_factory call, as it is logged
Lookup(fmt, index) == [file_format |-> fmt, index |-> index]

\* no resolver call in progress
ResolverInit ==
    /\ pc = "idle"
    /\ fn = None
    /\ item_format = None
    /\ possible_file_formats = <<>>
    /\ preferred_format = None
    /\ file_format = None
    /\ native_writers = <<>>
    /\ idx = 0
    /\ result = NoResult
    /\ reads = <<>>
    /\ lookups = <<>>

\* a caller invokes resolve_best_writer_spec(item_format, possible, preferred)
CallResolve ==
    /\ pc = "idle"
    /\ \E it \in TDataItemFormat,
          poss \in SeqsUpTo(TLoaderFileFormat, MaxCandidates),
          pref \in TLoaderFileFormat \cup {None} :
            /\ item_format' = it
            /\ possible_file_formats' = poss
            /\ preferred_format' = pref
    /\ file_format' = None
    /\ native_writers' = <<>>
    /\ idx' = 0
    /\ result' = NoResult
    /\ reads' = <<>>
    /\ lookups' = <<>>
    /\ pc' = "resolve_689"
    /\ fn' = "resolve_best_writer_spec"
    /\ UNCHANGED <<svars, wvars, xvars>>

\* line 689: native_writers = NATIVE_FORMAT_WRITERS[item_format]
ResolveReadNative ==
    /\ pc = "resolve_689"
    /\ native_writers' = NATIVE_FORMAT_WRITERS[item_format]
    /\ reads' = Append(reads, "NATIVE_FORMAT_WRITERS")
    /\ pc' = "resolve_691"
    /\ UNCHANGED <<fn, item_format, possible_file_formats, preferred_format,
                   file_format, idx, result, lookups>>
    /\ UNCHANGED <<svars, wvars, xvars>>

\* a membership test that always succeeds
InFormats_always(x, formats) == TRUE

\* x in possible_file_formats
InFormats(x, formats) == \E k \in DOMAIN formats : formats[k] = x

\* lines 691-695 followed by the scan, the try of lines 696-701 left out
ResolveCheckPreferred_no_try ==
    /\ pc = "resolve_691"
    /\ IF preferred_format # None /\ ~ InFormats(preferred_format, possible_file_formats)
       THEN /\ result' = Raised("ValueError")
            /\ pc' = "done"
            /\ idx' = idx
       ELSE /\ pc' = "resolve_703"
            /\ idx' = 1
            /\ result' = result
    /\ UNCHANGED <<fn, item_format, possible_file_formats, preferred_format,
                   file_format, native_writers, reads, lookups>>
    /\ UNCHANGED <<svars, wvars, xvars>>

\* lines 691-695 without the membership check
ResolveCheckPreferred_unchecked ==
    /\ pc = "resolve_691"
    /\ IF preferred_format # None
       THEN /\ pc' = "resolve_696"
            /\ UNCHANGED <<result, idx>>
       ELSE /\ pc' = "resolve_703"
            /\ idx' = 1
            /\ result' = result
    /\ UNCHANGED <<fn, item_format, possible_file_formats, preferred_format,
                   file_format, native_writers, reads, lookups>>
    /\ UNCHANGED <<svars, wvars, xvars>>

\* lines 691-695: if preferred_format: membership check, ValueError
ResolveCheckPreferred ==
    /\ pc = "resolve_691"
    /\ IF preferred_format # None
       THEN IF ~ InFormats(preferred_format, possible_file_formats)
            THEN /\ result' = Raised("ValueError")
                 /\ pc' = "done"
                 /\ idx' = idx
            ELSE /\ pc' = "resolve_696"
                 /\ UNCHANGED <<result, idx>>
       ELSE /\ pc' = "resolve_703"
            /\ idx' = 1
            /\ result' = result
    /\ UNCHANGED <<fn, item_format, possible_file_formats, preferred_format,
                   file_format, native_writers, reads, lookups>>
    /\ UNCHANGED <<svars, wvars, xvars>>

\* lines 696-701 with the lookup made over ALL_WRITERS
ResolveTryPreferredNative_all_writers ==
    /\ pc = "resolve_696"
    /\ LET w == class_factory(preferred_format, item_format, ALL_WRITERS) IN
       IF IsDataWriterNotFound(w)
       THEN /\ pc' = "resolve_703"
            /\ idx' = 1
            /\ result' = result
       ELSE /\ result' = Returned(writer_spec(w))
            /\ pc' = "done"
            /\ idx' = idx
    /\ lookups' = Append(lookups, Lookup(preferred_format, "native"))
    /\ UNCHANGED <<fn, item_format, possible_file_formats, preferred_format,
                   file_format, native_writers, reads>>
    /\ UNCHANGED <<svars, wvars, xvars>>

\* lines 696-701: try class_factory(preferred_format, item_format, native_writers)
ResolveTryPreferredNative ==
    /\ pc = "resolve_696"
    /\ LET w == class_factory(preferred_format, item_format, native_writers) IN
       IF IsDataWriterNotFound(w)
       THEN /\ pc' = "resolve_703"
            /\ idx' = 1
            /\ result' = result
       ELSE /\ result' = Returned(writer_spec(w))
            /\ pc' = "done"
            /\ idx' = idx
    /\ lookups' = Append(lookups, Lookup(preferred_format, "native"))
    /\ UNCHANGED <<fn, item_format, possible_file_formats, preferred_format,
                   file_format, native_writers, reads>>
    /\ UNCHANGED <<svars, wvars, xvars>>

\* lines 703-710: one iteration of the scan of the native writers
ResolveScanNative ==
    /\ pc = "resolve_703"
    /\ IF idx > Len(possible_file_formats)
       THEN /\ pc' = "resolve_713"
            /\ UNCHANGED <<idx, result, lookups>>
       ELSE LET supported_format == possible_file_formats[idx] IN
            IF supported_format # preferred_format
            THEN LET w == class_factory(supported_format, item_format,
                                        native_writers) IN
                 /\ lookups' = Append(lookups, Lookup(supported_format, "native"))
                 /\ IF IsDataWriterNotFound(w)
                    THEN /\ idx' = idx + 1
                         /\ UNCHANGED <<pc, result>>
                    ELSE /\ result' = Returned(writer_spec(w))
                         /\ pc' = "done"
                         /\ idx' = idx
            ELSE /\ idx' = idx + 1
                 /\ UNCHANGED <<pc, result, lookups>>
    /\ UNCHANGED <<fn, item_format, possible_file_formats, preferred_format,
                   file_format, native_writers, reads>>
    /\ UNCHANGED <<svars, wvars, xvars>>

\* lines 713-719: if preferred_format: try class_factory over ALL_WRITERS
ResolveTryPreferredAll ==
    /\ pc = "resolve_713"
    /\ IF preferred_format # None
       THEN LET w == class_factory(preferred_format, item_format, ALL_WRITERS) IN
            /\ reads' = Append(reads, "ALL_WRITERS")
            /\ lookups' = Append(lookups, Lookup(preferred_format, "all"))
            /\ IF IsDataWriterNotFound(w)
               THEN /\ pc' = "resolve_721"
                    /\ idx' = 1
                    /\ result' = result
               ELSE /\ result' = Returned(writer_spec(w))
                    /\ pc' = "done"
                    /\ idx' = idx
       ELSE /\ pc' = "resolve_721"
            /\ idx' = 1
            /\ UNCHANGED <<result, reads, lookups>>
    /\ UNCHANGED <<fn, item_format, possible_file_formats, preferred_format,
                   file_format, native_writers>>
    /\ UNCHANGED <<svars, wvars, xvars>>

\* lines 721-728: one iteration of the scan of all writers
ResolveScanAll ==
    /\ pc = "resolve_721"
    /\ IF idx > Len(possible_file_formats)
       THEN /\ pc' = "resolve_730"
            /\ UNCHANGED <<idx, result, reads, lookups>>
       ELSE LET supported_format == possible_file_formats[idx] IN
            IF supported_format # preferred_format
            THEN LET w == class_factory(supported_format, item_format,
                                        ALL_WRITERS) IN
                 /\ reads' = Append(reads, "ALL_WRITERS")
                 /\ lookups' = Append(lookups, Lookup(supported_format, "all"))
                 /\ IF IsDataWriterNotFound(w)
                    THEN /\ idx' = idx + 1
                         /\ UNCHANGED <<pc, result>>
                    ELSE /\ result' = Returned(writer_spec(w))
                         /\ pc' = "done"
                         /\ idx' = idx
            ELSE /\ idx' = idx + 1
                 /\ UNCHANGED <<pc, result, reads, lookups>>
    /\ UNCHANGED <<fn, item_format, possible_file_formats, preferred_format,
                   file_format, native_writers>>
    /\ UNCHANGED <<svars, wvars, xvars>>

\* line 730: raise SpecLookupFailed(...)
ResolveRaise ==
    /\ pc = "resolve_730"
    /\ result' = Raised("SpecLookupFailed")
    /\ pc' = "done"
    /\ UNCHANGED <<fn, item_format, possible_file_formats, preferred_format,
                   file_format, native_writers, idx, reads, lookups>>
    /\ UNCHANGED <<svars, wvars, xvars>>

\* a caller invokes get_best_writer_spec(item_format, file_format)
CallGetBest ==
    /\ pc = "idle"
    /\ \E it \in TDataItemFormat, ff \in TLoaderFileFormat :
            /\ item_format' = it
            /\ file_format' = ff
    /\ possible_file_formats' = <<>>
    /\ preferred_format' = None
    /\ native_writers' = <<>>
    /\ idx' = 0
    /\ result' = NoResult
    /\ reads' = <<>>
    /\ lookups' = <<>>
    /\ pc' = "get_best_737"
    /\ fn' = "get_best_writer_spec"
    /\ UNCHANGED <<svars, wvars, xvars>>

\* line 737: native_writers = NATIVE_FORMAT_WRITERS[item_format]
GetBestReadNative ==
    /\ pc = "get_best_737"
    /\ native_writers' = NATIVE_FORMAT_WRITERS[item_format]
    /\ reads' = Append(reads, "NATIVE_FORMAT_WRITERS")
    /\ pc' = "get_best_738"
    /\ UNCHANGED <<fn, item_format, possible_file_formats, preferred_format,
                   file_format, idx, result, lookups>>
    /\ UNCHANGED <<svars, wvars, xvars>>

\* lines 738-740: try class_factory(file_format, item_format, native_writers)
GetBestTryNative ==
    /\ pc = "get_best_738"
    /\ LET w == class_factory(file_format, item_format, native_writers) IN
       IF IsDataWriterNotFound(w)
       THEN /\ pc' = "get_best_741"
            /\ result' = result
       ELSE /\ result' = Returned(writer_spec(w))
            /\ pc' = "done"
    /\ lookups' = Append(lookups, Lookup(file_format, "native"))
    /\ UNCHANGED <<fn, item_format, possible_file_formats, preferred_format,
                   file_format, native_writers, idx, reads>>
    /\ UNCHANGED <<svars, wvars, xvars>>

\* line 741 with the lookup made over native_writers again
GetBestFallback_native_again ==
    /\ pc = "get_best_741"
    /\ LET w == class_factory(file_format, item_format, native_writers) IN
       IF w = FileFormatForItemFormatNotFound
       THEN result' = Raised(w)
       ELSE result' = Returned(writer_spec(w))
    /\ pc' = "done"
    /\ reads' = Append(reads, "ALL_WRITERS")
    /\ lookups' = Append(lookups, Lookup(file_format, "all"))
    /\ UNCHANGED <<fn, item_format, possible_file_formats, preferred_format,
                   file_format, native_writers, idx>>
    /\ UNCHANGED <<svars, wvars, xvars>>

\* line 741: the except branch, class_factory over ALL_WRITERS; its
\* FileFormatForItemFormatNotFound is not caught
GetBestFallback ==
    /\ pc = "get_best_741"
    /\ LET w == class_factory(file_format, item_format, ALL_WRITERS) IN
       IF w = FileFormatForItemFormatNotFound
       THEN result' = Raised(w)
       ELSE result' = Returned(writer_spec(w))
    /\ pc' = "done"
    /\ reads' = Append(reads, "ALL_WRITERS")
    /\ lookups' = Append(lookups, Lookup(file_format, "all"))
    /\ UNCHANGED <<fn, item_format, possible_file_formats, preferred_format,
                   file_format, native_writers, idx>>
    /\ UNCHANGED <<svars, wvars, xvars>>

\* the call has returned or raised; the caller goes on to its next call
Finish ==
    /\ pc = "done"
    /\ pc' = "idle"
    /\ fn' = None
    /\ item_format' = None
    /\ possible_file_formats' = <<>>
    /\ preferred_format' = None
    /\ file_format' = None
    /\ native_writers' = <<>>
    /\ idx' = 0
    /\ result' = NoResult
    /\ reads' = <<>>
    /\ lookups' = <<>>
    /\ UNCHANGED <<svars, wvars, xvars>>

Next ==
    \/ CallResolve
    \/ ResolveReadNative
    \/ ResolveCheckPreferred
    \/ ResolveTryPreferredNative
    \/ ResolveScanNative
    \/ ResolveTryPreferredAll
    \/ ResolveScanAll
    \/ ResolveRaise
    \/ CallGetBest
    \/ GetBestReadNative
    \/ GetBestTryNative
    \/ GetBestFallback
    \/ Finish

\* ------------------------------------------------- writer_class_from_spec

\* WRITER_SPECS = {writer.writer_spec(): writer for writer in ALL_WRITERS}:
\* a dict keyed by the whole spec tuple; a later writer with an equal spec
\* replaces an earlier one
WRITER_SPECS ==
    [s \in {writer_spec(ALL_WRITERS[k]) : k \in DOMAIN ALL_WRITERS} |->
        ALL_WRITERS[CHOOSE k \in DOMAIN ALL_WRITERS :
            /\ writer_spec(ALL_WRITERS[k]) = s
            /\ \A j \in DOMAIN ALL_WRITERS :
                  writer_spec(ALL_WRITERS[j]) = s => j <= k]]

\* the error writer_class_from_spec raises on a KeyError
FileSpecNotFound == "FileSpecNotFound"

\* a lookup that goes by the (file_format, data_item_format) pair of the spec
writer_class_from_spec_by_pair(spec) ==
    LET w == class_factory(spec.file_format, spec.data_item_format, ALL_WRITERS) IN
    IF w = FileFormatForItemFormatNotFound THEN FileSpecNotFound ELSE w

\* DataWriter.writer_class_from_spec:
\*   try: return WRITER_SPECS[spec]
\*   except KeyError: raise FileSpecNotFound(...)
writer_class_from_spec(spec) ==
    IF spec \in DOMAIN WRITER_SPECS THEN WRITER_SPECS[spec] ELSE FileSpecNotFound

\* the values of supports_schema_changes
SchemaChanges == {"True", "Buffer", "False"}

\* every FileWriterSpec value over the vocabularies of its fields
SpecValues ==
    {FileWriterSpec(ff, dif, ext, bin, changes, caps, compr) :
        ff \in TLoaderFileFormat, dif \in TDataItemFormat,
        ext \in TLoaderFileFormat, bin \in BOOLEAN, changes \in SchemaChanges,
        caps \in BOOLEAN, compr \in BOOLEAN}

\* no writer_class_from_spec call in progress
LookupInit ==
    /\ lk_pc = "idle"
    /\ lk_spec = NoSpec
    /\ lk_result = None

\* a caller invokes writer_class_from_spec(spec), which returns or raises
CallFromSpec ==
    /\ lk_pc = "idle"
    /\ \E spec \in SpecValues :
          /\ lk_spec' = spec
          /\ lk_result' = writer_class_from_spec(spec)
    /\ lk_pc' = "done"
    /\ UNCHANGED <<rvars, wvars, xvars>>

\* the caller goes on to its next lookup
FinishFromSpec ==
    /\ lk_pc = "done"
    /\ lk_pc' = "idle"
    /\ lk_spec' = NoSpec
    /\ lk_result' = None
    /\ UNCHANGED <<rvars, wvars, xvars>>

NextLookup ==
    \/ CallFromSpec
    \/ FinishFromSpec

\* ------------------------------------------------------ writer instances

\* longest sequence of calls made on one writer instance, construction not counted
MaxOps == 4

\* most records handed to the write_data calls of one writer instance
MaxRows == 3

\* most items (rows, or batches for an arrow writer) in the argument of one
\* write_data call
MaxBatch == 2

\* the rows of a call argument: a row is a dict, modelled as the sequence of
\* its (key, value) items in insertion order
Item(k, v) == <<k, v>>

\* the keys of a row, in insertion order
Keys(row) == [k \in DOMAIN row |-> row[k][1]]

\* key in row
HasKey(row, key) == \E k \in DOMAIN row : row[k][1] = key

\* row[key], for a key of the row
Get(row, key) == row[CHOOSE k \in DOMAIN row : row[k][1] = key][2]

\* row[key] = value on a key of the row: the item keeps its position
Put(row, key, value) ==
    [k \in DOMAIN row |-> IF row[k][1] = key THEN Item(key, value) ELSE row[k]]

RECURSIVE Join(_, _)
\* sep.join(strings)
Join(strings, sep) ==
    IF strings = <<>> THEN ""
    ELSE IF Len(strings) = 1 THEN strings[1]
    ELSE strings[1] \o sep \o Join(Tail(strings), sep)

RECURSIVE Flatten(_)
\* the concatenation of a sequence of sequences
Flatten(seqs) ==
    IF seqs = <<>> THEN <<>> ELSE Head(seqs) \o Flatten(Tail(seqs))

\* a table schema (TTableSchemaColumns): the columns in declaration order
Column(name, data_type) == [name |-> name, data_type |-> data_type]

\* columns_schema=None
NoSchema == <<Column(None, None)>>

\* the column schemas callers declare
ColumnSchemas ==
    {<<Column("a", "text"), Column("b", "complex")>>,
     <<Column("b", "binary"), Column("a", "text")>>}

\* columns_schema.keys()
ColumnNames(columns_schema) ==
    [k \in DOMAIN columns_schema |-> columns_schema[k].name]

\* a sequence attribute that is None
NoneSeq == <<None>>

\* a sequence attribute that has not been assigned
Unset == <<"<unset>">>

\* the attributes of a writer instance; the attributes a class does not have
\* stay Unset. built and finalized count the encoders the instance created
\* and the encoders it closed
Instance(cls, caps) ==
    [cls |-> cls,
     caps |-> caps,
     items_count |-> 0,
     chunks_written |-> 0,
     headers_lookup |-> Unset,
     columns_schema |-> <<Column("<unset>", "<unset>")>>,
     complex_indices |-> Unset,
     bytes_indices |-> Unset,
     writer |-> "<unset>",
     schema |-> Unset,
     first_schema |-> Unset,
     built |-> 0,
     finalized |-> 0]

\* no instance
NoInstance == Instance(None, None)

\* the outcome of a method call: the instance after it, the strings it wrote
\* to self._f in order, the exception it raised or None, and the caller's
\* argument as the call left it
Eff(s, out, exc, rows) == [self |-> s, out |-> out, exc |-> exc, rows |-> rows]

\* caps.escape_identifier
escape_identifier(name) == "\"" \o name \o "\""

\* caps.escape_literal
escape_literal(v) == "E(" \o v \o ")"

\* json.dump(row, f)
json_dump(row) ==
    "{" \o Join([k \in DOMAIN row |-> row[k][1] \o ":" \o row[k][2]], ",") \o "}"

\* json.typed_dump(rows, f)
typed_dump(rows) ==
    "[" \o Join([k \in DOMAIN rows |-> json_dump(rows[k])], ",") \o "]"

\* DataWriter.__init__
DataWriter_init(cls, caps) == Instance(cls, caps)

\* DataWriter.write_data: self.items_count += len(rows)
DataWriter_write_data(s, rows) ==
    Eff([s EXCEPT !.items_count = @ + Len(rows)], <<>>, None, rows)

\* JsonlWriter.write_data: one json.dump and one newline per row
JsonlWriter_write_data(s, rows) ==
    LET base == DataWriter_write_data(s, rows) IN
    Eff(base.self,
        Flatten([k \in DOMAIN rows |-> <<json_dump(rows[k]), "\n">>]),
        None, rows)

\* TypedJsonlListWriter.write_data: super(JsonlWriter, self).write_data, then
\* the whole list as one line
TypedJsonlListWriter_write_data(s, rows) ==
    LET base == DataWriter_write_data(s, rows) IN
    Eff(base.self, <<typed_dump(rows), "\n">>, None, rows)

\* InsertValuesWriter.__init__: pre, post and sep of the dialect
InsertValuesWriter_pre(s) == IF s.caps = "default" THEN "(" ELSE "SELECT "

InsertValuesWriter_post(s) == IF s.caps = "default" THEN ")" ELSE ""

InsertValuesWriter_sep(s) == IF s.caps = "default" THEN ",\n" ELSE " UNION ALL\n"

\* InsertValuesWriter.__init__: _chunks_written = 0, _headers_lookup = None
InsertValuesWriter_init(cls, caps) ==
    [DataWriter_init(cls, caps) EXCEPT !.chunks_written = 0,
                                       !.headers_lookup = NoneSeq]

\* a write_header that does not look at the schema it is given
InsertValuesWriter_write_header_unchecked(s, columns_schema) ==
    IF s.chunks_written # 0 THEN Eff(s, <<>>, "AssertionError", columns_schema)
    ELSE LET headers == ColumnNames(columns_schema) IN
         Eff([s EXCEPT !.headers_lookup = headers],
             <<"INSERT INTO {}(",
               Join([k \in DOMAIN headers |-> escape_identifier(headers[k])], ","),
               ")\n">>
             \o (IF s.caps = "default" THEN <<"VALUES\n">> ELSE <<>>),
             None, columns_schema)

\* a write_header that does not look at the chunks written
InsertValuesWriter_write_header_any_time(s, columns_schema) ==
    IF columns_schema = NoSchema
    THEN Eff(s, <<>>, "AssertionError", columns_schema)
    ELSE LET headers == ColumnNames(columns_schema) IN
         Eff([s EXCEPT !.headers_lookup = headers],
             <<"INSERT INTO {}(",
               Join([k \in DOMAIN headers |-> escape_identifier(headers[k])], ","),
               ")\n">>
             \o (IF s.caps = "default" THEN <<"VALUES\n">> ELSE <<>>),
             None, columns_schema)

\* InsertValuesWriter.write_header
InsertValuesWriter_write_header(s, columns_schema) ==
    IF s.chunks_written # 0 THEN Eff(s, <<>>, "AssertionError", columns_schema)
    ELSE IF columns_schema = NoSchema
    THEN Eff(s, <<>>, "AssertionError", columns_schema)
    ELSE LET headers == ColumnNames(columns_schema) IN
         Eff([s EXCEPT !.headers_lookup = headers],
             <<"INSERT INTO {}(",
               Join([k \in DOMAIN headers |-> escape_identifier(headers[k])], ","),
               ")\n">>
             \o (IF s.caps = "default" THEN <<"VALUES\n">> ELSE <<>>),
             None, columns_schema)

\* self._headers_lookup[n]: the position of column n, 0 for a KeyError
HeaderIndex(headers_lookup, n) ==
    IF \E i \in DOMAIN headers_lookup : headers_lookup[i] = n
    THEN CHOOSE i \in DOMAIN headers_lookup : headers_lookup[i] = n
    ELSE 0

RECURSIVE write_row_fill(_, _, _, _)
\* a loop that skips the keys the header does not declare
write_row_fill_skip_undeclared(output, headers_lookup, row, k) ==
    IF k > Len(row) THEN output
    ELSE LET i == HeaderIndex(headers_lookup, row[k][1]) IN
         write_row_fill(IF i = 0 THEN output
                        ELSE [output EXCEPT ![i] = escape_literal(row[k][2])],
                        headers_lookup, row, k + 1)

\* a loop that fills the slots in the order of the row's keys
write_row_fill_in_key_order(output, headers_lookup, row, k) ==
    IF k > Len(row) THEN output
    ELSE IF HeaderIndex(headers_lookup, row[k][1]) = 0 THEN <<"KeyError">>
    ELSE write_row_fill([output EXCEPT ![k] = escape_literal(row[k][2])],
                        headers_lookup, row, k + 1)

\* the loop `for n, v in row.items(): output[self._headers_lookup[n]] = ...`
\* from item k on; <<"KeyError">> stands for the KeyError on an undeclared key
write_row_fill(output, headers_lookup, row, k) ==
    IF k > Len(row) THEN output
    ELSE LET i == HeaderIndex(headers_lookup, row[k][1]) IN
         IF i = 0 THEN <<"KeyError">>
         ELSE write_row_fill([output EXCEPT ![i] = escape_literal(row[k][2])],
                             headers_lookup, row, k + 1)

\* write_row: the strings one row writes, or <<"KeyError">> when it raises
\* before writing
InsertValuesWriter_write_row(s, row, last_row) ==
    LET nulls == [i \in DOMAIN s.headers_lookup |-> "NULL"]
        output == write_row_fill(nulls, s.headers_lookup, row, 1)
    IN  IF output = <<"KeyError">> THEN <<"KeyError">>
        ELSE <<InsertValuesWriter_pre(s), Join(output, ","), InsertValuesWriter_post(s)>>
             \o (IF last_row THEN <<>> ELSE <<InsertValuesWriter_sep(s)>>)

RECURSIVE InsertValuesWriter_write_rows(_, _, _)
\* the rows of one chunk from row k on: what is written, and whether a row
\* raised
InsertValuesWriter_write_rows(s, rows, k) ==
    IF k > Len(rows) THEN [out |-> <<>>, exc |-> None]
    ELSE LET one == InsertValuesWriter_write_row(s, rows[k], k = Len(rows)) IN
         IF one = <<"KeyError">> THEN [out |-> <<>>, exc |-> "KeyError"]
         ELSE LET rest == InsertValuesWriter_write_rows(s, rows, k + 1) IN
              [out |-> one \o rest.out, exc |-> rest.exc]

\* a write_data that puts no separator between chunks
InsertValuesWriter_write_data_no_chunk_sep(s, rows) ==
    LET base == DataWriter_write_data(s, rows).self IN
    IF Len(rows) = 0 THEN Eff(base, <<>>, None, rows)
    ELSE IF s.headers_lookup = NoneSeq THEN Eff(base, <<>>, "TypeError", rows)
    ELSE LET body == InsertValuesWriter_write_rows(s, rows, 1) IN
         Eff(IF body.exc = None THEN [base EXCEPT !.chunks_written = @ + 1] ELSE base,
             body.out, body.exc, rows)

\* InsertValuesWriter.write_data
InsertValuesWriter_write_data(s, rows) ==
    LET base == DataWriter_write_data(s, rows).self IN
    IF Len(rows) = 0 THEN Eff(base, <<>>, None, rows)
    ELSE IF s.headers_lookup = NoneSeq THEN Eff(base, <<>>, "TypeError", rows)
    ELSE LET chunk_sep == IF s.chunks_written > 0
                          THEN <<InsertValuesWriter_sep(s)>> ELSE <<>>
             body == InsertValuesWriter_write_rows(s, rows, 1)
         IN  Eff(IF body.exc = None THEN [base EXCEPT !.chunks_written = @ + 1]
                 ELSE base,
                 chunk_sep \o body.out, body.exc, rows)

\* a write_footer that always terminates the statement
InsertValuesWriter_write_footer_always(s) ==
    Eff(s, <<";">>, None, <<>>)

\* InsertValuesWriter.write_footer
InsertValuesWriter_write_footer(s) ==
    Eff(s, IF s.chunks_written > 0 THEN <<";">> ELSE <<>>, None, <<>>)

\* json.dumps(value)
json_dumps(value) == "json(" \o value \o ")"

\* isinstance(value, str)
IsStr(value) == value \in {"s1", "s2"}

\* a decoding that replaces what it cannot decode
decode_replace(value) ==
    IF value \in {"b1", "bad"} THEN [text |-> "dec(" \o value \o ")", exc |-> None]
    ELSE [text |-> None, exc |-> "AttributeError"]

\* value.decode(encoding): the text, or the error the call raises
decode(value) ==
    CASE value = "b1" -> [text |-> "dec(b1)", exc |-> None]
      [] value = "bad" -> [text |-> None, exc |-> "UnicodeError"]
      [] OTHER -> [text |-> None, exc |-> "AttributeError"]

\* the columns of a schema with the given data type, in schema order
RECURSIVE ColumnsOfType(_, _)
ColumnsOfType(columns_schema, data_type) ==
    IF columns_schema = <<>> THEN <<>>
    ELSE (IF Head(columns_schema).data_type = data_type
          THEN <<Head(columns_schema).name>> ELSE <<>>)
         \o ColumnsOfType(Tail(columns_schema), data_type)

\* ParquetDataWriter.__init__: caps or generic_capabilities("parquet")
ParquetDataWriter_init(cls, caps) ==
    [DataWriter_init(cls, IF caps = None THEN "generic" ELSE caps)
        EXCEPT !.writer = None, !.schema = NoneSeq, !.complex_indices = NoneSeq]

\* ParquetDataWriter.write_header: the schema, the complex columns, and a new
\* pyarrow ParquetWriter over the sink, which opens the file with its magic
ParquetDataWriter_write_header(s, columns_schema) ==
    IF columns_schema = NoSchema
    THEN Eff(s, <<>>, "AttributeError", columns_schema)
    ELSE Eff([s EXCEPT !.schema = ColumnNames(columns_schema),
                       !.complex_indices = ColumnsOfType(columns_schema, "complex"),
                       !.writer = "open",
                       !.built = @ + 1],
             <<"PAR1">>, None, columns_schema)

RECURSIVE dump_complex(_, _, _)
\* a conversion that writes the json into a copy and leaves the row alone
dump_complex_copy(row, keys, only_non_str) == row

\* the replacement of one row's complex values by their json
dump_complex(row, keys, only_non_str) ==
    IF keys = <<>> THEN row
    ELSE LET key == Head(keys)
             hit == /\ HasKey(row, key)
                    /\ Get(row, key) # None
                    /\ (only_non_str => ~IsStr(Get(row, key)))
         IN  dump_complex(IF hit THEN Put(row, key, json_dumps(Get(row, key))) ELSE row,
                          Tail(keys), only_non_str)

\* pyarrow.Table.from_pylist(rows, schema): one value per schema column
from_pylist(rows, schema) ==
    [k \in DOMAIN rows |->
        [i \in DOMAIN schema |->
            IF HasKey(rows[k], schema[i]) THEN Get(rows[k], schema[i]) ELSE None]]

\* what the parquet encoder appends for a table: one row group, also for a
\* table of zero rows
row_group(table) ==
    "rowgroup[" \o Join([k \in DOMAIN table |-> Join(table[k], ",")], ";") \o "]"

\* a write_data that opens a new encoder when the slot is empty
ParquetDataWriter_write_data_reopen(s, rows) ==
    LET base == DataWriter_write_data(s, rows).self IN
    IF s.complex_indices = NoneSeq THEN Eff(base, <<>>, "TypeError", rows)
    ELSE LET dumped == [k \in DOMAIN rows |->
                           dump_complex(rows[k], s.complex_indices, TRUE)]
         IN  Eff([base EXCEPT !.writer = "open"],
                 <<row_group(from_pylist(dumped, s.schema))>>, None, dumped)

\* ParquetDataWriter.write_data
ParquetDataWriter_write_data(s, rows) ==
    LET base == DataWriter_write_data(s, rows).self IN
    IF s.complex_indices = NoneSeq THEN Eff(base, <<>>, "TypeError", rows)
    ELSE LET dumped == [k \in DOMAIN rows |->
                           dump_complex(rows[k], s.complex_indices, TRUE)]
         IN  IF s.writer = None THEN Eff(base, <<>>, "AttributeError", dumped)
             ELSE Eff(base, <<row_group(from_pylist(dumped, s.schema))>>, None, dumped)

\* a close that finalizes whatever the writer slot holds
ParquetDataWriter_close_always(s) ==
    Eff([s EXCEPT !.writer = None, !.finalized = @ + 1], <<"parquet-footer">>, None, <<>>)

\* ParquetDataWriter.close
ParquetDataWriter_close(s) ==
    IF s.writer = "open"
    THEN Eff([s EXCEPT !.writer = None, !.finalized = @ + 1],
             <<"parquet-footer">>, None, <<>>)
    ELSE Eff(s, <<>>, None, <<>>)

\* CsvWriter.__init__
CsvWriter_init(cls, caps) == [DataWriter_init(cls, caps) EXCEPT !.writer = None]

\* one csv cell under QUOTE_NONNUMERIC: restval and None give an empty string
csv_cell(row, name) ==
    IF HasKey(row, name) /\ Get(row, name) # None
    THEN "\"" \o Get(row, name) \o "\"" ELSE "\"\""

\* a writerow that emits the cells of the row's own keys
csv_line_row_keys(row, fieldnames) ==
    Join([i \in DOMAIN row |-> csv_cell(row, row[i][1])], ",") \o "\n"

\* DictWriter.writerow with extrasaction="ignore": the declared columns only
csv_line(row, fieldnames) ==
    Join([i \in DOMAIN fieldnames |-> csv_cell(row, fieldnames[i])], ",") \o "\n"

\* CsvWriter.write_header
CsvWriter_write_header(s, columns_schema) ==
    IF columns_schema = NoSchema
    THEN Eff([s EXCEPT !.columns_schema = NoSchema], <<>>, "AttributeError",
             columns_schema)
    ELSE LET fieldnames == ColumnNames(columns_schema) IN
         Eff([s EXCEPT !.columns_schema = columns_schema,
                       !.writer = "open",
                       !.schema = fieldnames,
                       !.complex_indices = ColumnsOfType(columns_schema, "complex"),
                       !.bytes_indices = ColumnsOfType(columns_schema, "binary")],
             <<Join([i \in DOMAIN fieldnames |-> "\"" \o fieldnames[i] \o "\""], ",")
               \o "\n">>,
             None, columns_schema)

\* the decoding of one row's binary values: the row, and the error if any
RECURSIVE decode_bytes(_, _)
decode_bytes(row, keys) ==
    IF keys = <<>> THEN [row |-> row, exc |-> None]
    ELSE LET key == Head(keys) IN
         IF HasKey(row, key) /\ Get(row, key) # None
         THEN LET d == decode(Get(row, key)) IN
              IF d.exc = "UnicodeError" THEN [row |-> row, exc |-> "InvalidDataItem"]
              ELSE IF d.exc # None THEN [row |-> row, exc |-> d.exc]
              ELSE decode_bytes(Put(row, key, d.text), Tail(keys))
         ELSE decode_bytes(row, Tail(keys))

\* the conversion loop of CsvWriter.write_data from row k on: the rows as the
\* loop leaves them, and the error that stopped it
RECURSIVE CsvWriter_convert(_, _, _)
CsvWriter_convert(s, rows, k) ==
    IF k > Len(rows) THEN [rows |-> rows, exc |-> None]
    ELSE LET one == decode_bytes(dump_complex(rows[k], s.complex_indices, FALSE),
                                 s.bytes_indices)
             done == [rows EXCEPT ![k] = one.row]
         IN  IF one.exc # None THEN [rows |-> done, exc |-> one.exc]
             ELSE CsvWriter_convert(s, done, k + 1)

RECURSIVE SumLen(_)
\* sum(len(row) for row in rows)
SumLen(rows) == IF rows = <<>> THEN 0 ELSE Len(Head(rows)) + SumLen(Tail(rows))

\* CsvWriter.write_data
CsvWriter_write_data(s, rows) ==
    IF s.complex_indices = Unset THEN Eff(s, <<>>, "AttributeError", rows)
    ELSE LET conv == CsvWriter_convert(s, rows, 1) IN
         IF conv.exc # None THEN Eff(s, <<>>, conv.exc, conv.rows)
         ELSE IF s.writer = None THEN Eff(s, <<>>, "AttributeError", conv.rows)
         ELSE Eff([s EXCEPT !.items_count = @ + SumLen(conv.rows)],
                  [k \in DOMAIN conv.rows |-> csv_line(conv.rows[k], s.schema)],
                  None, conv.rows)

\* CsvWriter.close
CsvWriter_close(s) ==
    Eff([s EXCEPT !.writer = None, !.first_schema = NoneSeq], <<>>, None, <<>>)

\* a columnar batch (pyarrow.Table or RecordBatch): its schema and its rows
Batch(schema, values) ==
    [schema |-> schema,
     pylist |-> [k \in DOMAIN values |->
                    [i \in DOMAIN schema |-> Item(schema[i], values[k][i])]]]

\* batch.to_pylist(): one dict per row, keys in schema order
to_pylist(batch) == batch.pylist

\* batch.num_rows
num_rows(batch) == Len(batch.pylist)

\* what an arrow encoder appends for one batch
batch_bytes(batch) ==
    "batch[" \o Join([k \in DOMAIN batch.pylist |->
                        Join([i \in DOMAIN batch.pylist[k] |-> batch.pylist[k][i][2]], ",")],
                     ";") \o "]"

RECURSIVE ArrowToParquetWriter_write_data(_, _)
\* a write_data that opens a new encoder for its first batch, whatever the slot
\* holds
ArrowToParquetWriter_write_data_reopen(s, rows) ==
    IF rows = <<>> THEN Eff(s, <<>>, None, rows)
    ELSE LET row == Head(rows)
             s1 == [s EXCEPT !.writer = "open", !.schema = row.schema,
                             !.built = @ + 1]
             rest == ArrowToParquetWriter_write_data(
                         [s1 EXCEPT !.items_count = @ + num_rows(row)], Tail(rows))
         IN  Eff(rest.self, <<"PAR1", batch_bytes(row)>> \o rest.out, rest.exc, rows)

\* ArrowToParquetWriter.write_data: the encoder is created from the schema of
\* the first batch met while the slot is empty; pyarrow refuses a table whose
\* schema differs from the one the file was opened with
ArrowToParquetWriter_write_data(s, rows) ==
    IF rows = <<>> THEN Eff(s, <<>>, None, rows)
    ELSE LET row == Head(rows)
             create == s.writer # "open"
             s1 == IF create
                   THEN [s EXCEPT !.writer = "open", !.schema = row.schema,
                                  !.built = @ + 1]
                   ELSE s
             opened == IF create THEN <<"PAR1">> ELSE <<>>
         IN  IF row.schema # s1.schema THEN Eff(s1, opened, "ValueError", rows)
             ELSE LET rest == ArrowToParquetWriter_write_data(
                                  [s1 EXCEPT !.items_count = @ + num_rows(row)],
                                  Tail(rows))
                  IN  Eff(rest.self, opened \o <<batch_bytes(row)>> \o rest.out,
                          rest.exc, rows)

\* ArrowToParquetWriter.write_header: the schema is only stored
ArrowToParquetWriter_write_header(s, columns_schema) ==
    Eff([s EXCEPT !.columns_schema = columns_schema], <<>>, None, columns_schema)

\* a write_footer that accepts an empty file
ArrowToParquetWriter_write_footer_empty_ok(s) == Eff(s, <<>>, None, <<>>)

\* ArrowToParquetWriter.write_footer
ArrowToParquetWriter_write_footer(s) ==
    IF s.writer # "open" THEN Eff(s, <<>>, "NotImplementedError", <<>>)
    ELSE Eff(s, <<>>, None, <<>>)

\* ArrowToCsvWriter.__init__
ArrowToCsvWriter_init(cls, caps) == [DataWriter_init(cls, caps) EXCEPT !.writer = None]

\* ArrowToCsvWriter.write_header
ArrowToCsvWriter_write_header(s, columns_schema) ==
    Eff([s EXCEPT !.columns_schema = columns_schema], <<>>, None, columns_schema)

\* the header line of a csv file
csv_header(names) ==
    Join([i \in DOMAIN names |-> "\"" \o names[i] \o "\""], ",")

RECURSIVE ArrowToCsvWriter_write_data(_, _)
\* a write_data that writes every batch it meets, whatever its schema
ArrowToCsvWriter_write_data_any_schema(s, rows) ==
    IF rows = <<>> THEN Eff(s, <<>>, None, rows)
    ELSE LET row == Head(rows)
             create == s.writer # "open"
             s1 == IF create
                   THEN [s EXCEPT !.writer = "open", !.first_schema = row.schema,
                                  !.built = @ + 1]
                   ELSE s
             opened == IF create THEN <<csv_header(row.schema) \o "\n">> ELSE <<>>
             rest == ArrowToCsvWriter_write_data(
                         [s1 EXCEPT !.items_count = @ + num_rows(row)], Tail(rows))
         IN  Eff(rest.self, opened \o <<batch_bytes(row)>> \o rest.out, rest.exc, rows)

\* ArrowToCsvWriter.write_data: the CSVWriter, which writes the header line
\* when it is created, is built from the first batch met while the slot is
\* empty; a batch with another schema raises InvalidDataItem
ArrowToCsvWriter_write_data(s, rows) ==
    IF rows = <<>> THEN Eff(s, <<>>, None, rows)
    ELSE LET row == Head(rows)
             create == s.writer # "open"
             s1 == IF create
                   THEN [s EXCEPT !.writer = "open", !.first_schema = row.schema,
                                  !.built = @ + 1]
                   ELSE s
             opened == IF create THEN <<csv_header(row.schema) \o "\n">> ELSE <<>>
         IN  IF row.schema # s1.first_schema
             THEN Eff(s1, opened, "InvalidDataItem", rows)
             ELSE LET rest == ArrowToCsvWriter_write_data(
                                  [s1 EXCEPT !.items_count = @ + num_rows(row)],
                                  Tail(rows))
                  IN  Eff(rest.self, opened \o <<batch_bytes(row)>> \o rest.out,
                          rest.exc, rows)

\* a write_footer that writes the declared header whatever was written
ArrowToCsvWriter_write_footer_always(s) ==
    IF s.columns_schema \in ColumnSchemas
    THEN Eff(s, <<csv_header(ColumnNames(s.columns_schema))>>, None, <<>>)
    ELSE Eff(s, <<>>, "AttributeError", <<>>)

\* ArrowToCsvWriter.write_footer: the header-only line of an empty file
ArrowToCsvWriter_write_footer(s) ==
    IF s.writer = "open" THEN Eff(s, <<>>, None, <<>>)
    ELSE IF s.columns_schema \in ColumnSchemas
    THEN Eff(s, <<csv_header(ColumnNames(s.columns_schema))>>, None, <<>>)
    ELSE Eff(s, <<>>, "AttributeError", <<>>)

\* a close that drops the encoder without closing it
ArrowToCsvWriter_close_drop(s) ==
    Eff([s EXCEPT !.writer = None, !.first_schema = NoneSeq], <<>>, None, <<>>)

\* ArrowToCsvWriter.close
ArrowToCsvWriter_close(s) ==
    IF s.writer = "open"
    THEN Eff([s EXCEPT !.writer = None, !.first_schema = NoneSeq,
                       !.finalized = @ + 1],
             <<>>, None, <<>>)
    ELSE Eff(s, <<>>, None, <<>>)

\* super().write_data of the adapter mixin: the write_data of the row-object
\* class that follows it in the method resolution order
Super_write_data(s, rows) ==
    CASE issubclass(s.cls, "InsertValuesWriter") -> InsertValuesWriter_write_data(s, rows)
      [] issubclass(s.cls, "TypedJsonlListWriter") -> TypedJsonlListWriter_write_data(s, rows)
      [] OTHER -> JsonlWriter_write_data(s, rows)

RECURSIVE ArrowToObjectAdapter_write_data(_, _)
\* an adapter that hands the batches themselves to the wrapped writer
ArrowToObjectAdapter_write_data_batches(s, rows) ==
    Super_write_data(s, [k \in DOMAIN rows |-> <<Item("batch", batch_bytes(rows[k]))>>])

\* ArrowToObjectAdapter.write_data: one write_data of the wrapped class per batch
ArrowToObjectAdapter_write_data(s, rows) ==
    IF rows = <<>> THEN Eff(s, <<>>, None, rows)
    ELSE LET one == Super_write_data(s, to_pylist(Head(rows))) IN
         IF one.exc # None THEN Eff(one.self, one.out, one.exc, rows)
         ELSE LET rest == ArrowToObjectAdapter_write_data(one.self, Tail(rows)) IN
              Eff(rest.self, one.out \o rest.out, rest.exc, rows)

\* a construction that accepts a missing capabilities context for every class
init_unchecked(cls, caps) ==
    CASE issubclass(cls, "InsertValuesWriter") ->
            Eff(InsertValuesWriter_init(cls, caps), <<>>, None, <<>>)
      [] issubclass(cls, "ParquetDataWriter") ->
            Eff(ParquetDataWriter_init(cls, caps), <<>>, None, <<>>)
      [] cls = "CsvWriter" -> Eff(CsvWriter_init(cls, caps), <<>>, None, <<>>)
      [] cls = "ArrowToCsvWriter" ->
            Eff(ArrowToCsvWriter_init(cls, caps), <<>>, None, <<>>)
      [] OTHER -> Eff(DataWriter_init(cls, caps), <<>>, None, <<>>)

\* cls(f, caps): the new instance, or the error of the constructor
init(cls, caps) ==
    CASE issubclass(cls, "InsertValuesWriter") ->
            IF caps = None THEN Eff(NoInstance, <<>>, "AssertionError", <<>>)
            ELSE Eff(InsertValuesWriter_init(cls, caps), <<>>, None, <<>>)
      [] issubclass(cls, "ParquetDataWriter") ->
            Eff(ParquetDataWriter_init(cls, caps), <<>>, None, <<>>)
      [] cls = "CsvWriter" -> Eff(CsvWriter_init(cls, caps), <<>>, None, <<>>)
      [] cls = "ArrowToCsvWriter" ->
            Eff(ArrowToCsvWriter_init(cls, caps), <<>>, None, <<>>)
      [] OTHER -> Eff(DataWriter_init(cls, caps), <<>>, None, <<>>)

\* self.write_header(columns_schema), by the class of the instance
write_header(s, columns_schema) ==
    CASE issubclass(s.cls, "InsertValuesWriter") ->
            InsertValuesWriter_write_header(s, columns_schema)
      [] s.cls = "ParquetDataWriter" -> ParquetDataWriter_write_header(s, columns_schema)
      [] s.cls = "ArrowToParquetWriter" ->
            ArrowToParquetWriter_write_header(s, columns_schema)
      [] s.cls = "CsvWriter" -> CsvWriter_write_header(s, columns_schema)
      [] s.cls = "ArrowToCsvWriter" -> ArrowToCsvWriter_write_header(s, columns_schema)
      [] OTHER -> Eff(s, <<>>, None, columns_schema)

\* self.write_data(rows), by the class of the instance
write_data(s, rows) ==
    CASE issubclass(s.cls, "ArrowToObjectAdapter") ->
            ArrowToObjectAdapter_write_data(s, rows)
      [] s.cls = "InsertValuesWriter" -> InsertValuesWriter_write_data(s, rows)
      [] s.cls = "TypedJsonlListWriter" -> TypedJsonlListWriter_write_data(s, rows)
      [] s.cls = "JsonlWriter" -> JsonlWriter_write_data(s, rows)
      [] s.cls = "ParquetDataWriter" -> ParquetDataWriter_write_data(s, rows)
      [] s.cls = "CsvWriter" -> CsvWriter_write_data(s, rows)
      [] s.cls = "ArrowToParquetWriter" -> ArrowToParquetWriter_write_data(s, rows)
      [] s.cls = "ArrowToCsvWriter" -> ArrowToCsvWriter_write_data(s, rows)

\* self.write_footer(), by the class of the instance
write_footer(s) ==
    CASE issubclass(s.cls, "InsertValuesWriter") -> InsertValuesWriter_write_footer(s)
      [] s.cls = "ArrowToParquetWriter" -> ArrowToParquetWriter_write_footer(s)
      [] s.cls = "ArrowToCsvWriter" -> ArrowToCsvWriter_write_footer(s)
      [] OTHER -> Eff(s, <<>>, None, <<>>)

\* self.close(), by the class of the instance
close(s) ==
    CASE issubclass(s.cls, "ParquetDataWriter") -> ParquetDataWriter_close(s)
      [] s.cls = "CsvWriter" -> CsvWriter_close(s)
      [] s.cls = "ArrowToCsvWriter" -> ArrowToCsvWriter_close(s)
      [] OTHER -> Eff(s, <<>>, None, <<>>)

\* the destination capabilities a caller constructs a writer with: none, or
\* a context with one of the two insert_values_writer_type dialects
Capabilities == {None, "default", "select_union"}

\* the capabilities tried with a class; only the SQL-insert writers read them
CapabilitiesFor(cls) ==
    IF issubclass(cls, "InsertValuesWriter") THEN Capabilities ELSE {None}

\* the rows callers hand to a row-object writer
RowsFor(cls) ==
    CASE cls = "InsertValuesWriter" ->
            {<<Item("a", "s1")>>,
             <<Item("b", "s2"), Item("a", "s1")>>,
             <<Item("a", "s2"), Item("x", "s1")>>}
      [] cls = "CsvWriter" ->
            {<<Item("a", "s2"), Item("b", "b1"), Item("x", "s1")>>,
             <<Item("b", "bad")>>}
      [] cls = "ParquetDataWriter" ->
            {<<Item("a", "s1")>>,
             <<Item("b", "d1"), Item("a", "s2")>>}
      [] OTHER ->
            {<<Item("a", "s1")>>,
             <<Item("b", "s2"), Item("a", "s1")>>}

\* the columnar batches callers hand to an arrow writer
Batches ==
    {Batch(<<"a", "b">>, <<>>),
     Batch(<<"a", "b">>, << <<"s1", "s2">>, <<"s2", "s1">> >>),
     Batch(<<"a", "x">>, << <<"s2", "s1">> >>)}

RECURSIVE Records(_, _)
\* the number of records in a write_data argument
Records(cls, rows) ==
    IF writer_spec(cls).data_item_format = "object" THEN Len(rows)
    ELSE IF rows = <<>> THEN 0
    ELSE num_rows(Head(rows)) + Records(cls, Tail(rows))

\* the write_data arguments of at most n records for a class
DataArgs(cls, n) ==
    {rows \in SeqsUpTo(IF writer_spec(cls).data_item_format = "object"
                       THEN RowsFor(cls) ELSE Batches, MaxBatch) :
        Records(cls, rows) <= n}

\* the last call made on the instance: the method, the error it raised or
\* None, its argument before and after the call, and the length of the sink
\* when it was made
Call(op, exc, arg, arg_after, sink_before) ==
    [op |-> op, exc |-> exc, arg |-> arg, arg_after |-> arg_after,
     sink_before |-> sink_before]

NoCall == Call(None, None, <<>>, <<>>, 0)

\* what has happened to the instance so far: the calls made, the records
\* handed to write_data, the records and the rows of the write_data calls
\* that returned, the write_header and write_footer calls, whether close()
\* has been called, whether any call has raised, the schema of the first
\* encoder the instance built, the columns of the last write_header that
\* returned on a CsvWriter, and whether an arrow-native writer has been handed
\* a batch since construction (fed) and since construction or the last close()
\* (fed_open)
NoHistory ==
    [ops |-> 0, records_in |-> 0, records_ok |-> 0, rows_ok |-> <<>>,
     chunks_ok |-> 0, headers |-> 0, footers |-> 0,
     closed |-> FALSE, errored |-> FALSE, first_schema |-> Unset,
     declared |-> NoSchema, fed |-> FALSE, fed_open |-> FALSE]

\* the rows of a write_data argument, one dict per record
RowsOf(cls, rows) ==
    IF writer_spec(cls).data_item_format = "object" THEN rows
    ELSE Flatten([k \in DOMAIN rows |-> to_pylist(rows[k])])

\* the history after a call
After(op, eff, arg) ==
    LET ok == eff.exc = None
        data == op = "write_data"
        n == IF data THEN Records(self.cls, arg) ELSE 0
    IN  [ops |-> hist.ops + 1,
         records_in |-> hist.records_in + n,
         records_ok |-> hist.records_ok + (IF ok THEN n ELSE 0),
         rows_ok |-> hist.rows_ok
                     \o (IF data /\ ok THEN RowsOf(self.cls, arg) ELSE <<>>),
         chunks_ok |-> hist.chunks_ok + (IF data /\ ok /\ n > 0 THEN 1 ELSE 0),
         headers |-> hist.headers + (IF op = "write_header" THEN 1 ELSE 0),
         footers |-> hist.footers + (IF op = "write_footer" THEN 1 ELSE 0),
         closed |-> hist.closed \/ op = "close",
         errored |-> hist.errored \/ ~ok,
         first_schema |->
            IF hist.first_schema = Unset /\ eff.self.built > self.built
            THEN (IF self.cls = "ArrowToCsvWriter" THEN eff.self.first_schema
                  ELSE eff.self.schema)
            ELSE hist.first_schema,
         declared |->
            IF self.cls = "CsvWriter" /\ op = "write_header" /\ ok THEN arg
            ELSE hist.declared,
         fed |-> hist.fed \/ (data /\ arg # <<>>
                                 /\ self.cls \in {"ArrowToParquetWriter",
                                                   "ArrowToCsvWriter"}),
         fed_open |->
            IF op = "close" THEN FALSE
            ELSE hist.fed_open \/ (data /\ arg # <<>>
                                      /\ self.cls \in {"ArrowToParquetWriter",
                                                        "ArrowToCsvWriter"})]

\* no writer has been constructed
WriterInit ==
    /\ self = NoInstance
    /\ sink = <<>>
    /\ call = NoCall
    /\ hist = NoHistory

\* a call whose failure empties the sink
Apply_truncate_on_error(op, eff, arg) ==
    /\ self' = eff.self
    /\ sink' = (IF eff.exc = None THEN sink \o eff.out ELSE <<>>)
    /\ call' = Call(op, eff.exc, arg, eff.rows, Len(sink))
    /\ hist' = After(op, eff, arg)
    /\ UNCHANGED <<rvars, svars, xvars>>

\* the effect of a call on the instance, the sink and the history
Apply(op, eff, arg) ==
    /\ self' = eff.self
    /\ sink' = sink \o eff.out
    /\ call' = Call(op, eff.exc, arg, eff.rows, Len(sink))
    /\ hist' = After(op, eff, arg)
    /\ UNCHANGED <<rvars, svars, xvars>>

\* writer = cls(f, caps) on an empty sink
Construct ==
    /\ self = NoInstance
    /\ call = NoCall
    /\ \E k \in DOMAIN ALL_WRITERS : \E caps \in CapabilitiesFor(ALL_WRITERS[k]) :
          LET cls == ALL_WRITERS[k]
              eff == init(cls, caps)
          IN
          /\ self' = eff.self
          /\ call' = Call("__init__", eff.exc, <<cls, caps>>, <<cls, caps>>, 0)
          /\ UNCHANGED <<sink, hist, rvars, svars, xvars>>

\* a call is made on a constructed instance
Callable == self # NoInstance /\ hist.ops < MaxOps

\* writer.write_header(columns_schema)
WriteHeader ==
    /\ Callable
    /\ \E columns_schema \in ColumnSchemas \cup {NoSchema} :
          Apply("write_header", write_header(self, columns_schema), columns_schema)

\* writer.write_data(rows)
WriteData ==
    /\ Callable
    /\ \E rows \in DataArgs(self.cls, MaxRows - hist.records_in) :
          Apply("write_data", write_data(self, rows), rows)

\* writer.write_footer()
WriteFooter ==
    /\ Callable
    /\ Apply("write_footer", write_footer(self), <<>>)

\* writer.close()
Close ==
    /\ Callable
    /\ Apply("close", close(self), <<>>)

NextWriter ==
    \/ Construct
    \/ WriteHeader
    \/ WriteData
    \/ WriteFooter
    \/ Close

\* ------------------------------------------------ migrate_pipeline_state

\* highest engine version callers pass
MaxEngine == 5

\* a key the dict does not hold
Absent == "<absent>"

\* a pipeline state as stored by the engine versions before 4: the keys the
\* migration reads or writes
StateDict(version, local, destination, staging) ==
    [k \in {"_state_engine_version", "_local", "_version_hash", "destination",
            "staging", "destination_type", "destination_name", "staging_type",
            "staging_name"} |->
        CASE k = "_state_engine_version" -> version
          [] k = "_local" -> local
          [] k = "_version_hash" -> IF version >= 3 THEN "h0" ELSE Absent
          [] k = "destination" -> destination
          [] k = "staging" -> staging
          [] OTHER -> Absent]

\* generate_pipeline_state_version_hash(state): a digest of the state's
\* content without "_local"
generate_pipeline_state_version_hash(s) ==
    "hash(" \o s["destination"] \o "," \o s["staging"] \o ")"

\* Destination.to_name(ref): the last component of the reference
to_name(ref) ==
    CASE ref = "dlt.destinations.duckdb" -> "duckdb"
      [] ref = "dlt.destinations.filesystem" -> "filesystem"
      [] OTHER -> ref

\* the states callers hand to the migration for a given stored version
MigrateStates(version) ==
    {StateDict(version, local, destination, staging) :
        local \in {Absent, "local0"},
        destination \in {Absent, None, "dlt.destinations.duckdb"},
        staging \in {Absent, "dlt.destinations.filesystem"}}

\* the arguments of a call and the migration steps applied so far, before a
\* call
NoMigrateCall ==
    [state |-> StateDict(0, Absent, Absent, Absent), from_engine |-> 0, steps |-> <<>>]

\* no call in progress
CallsInit ==
    /\ x_fn = None
    /\ x_pc = "idle"
    /\ x_result = None
    /\ state = NoMigrateCall.state
    /\ from_engine = 0
    /\ to_engine = 0
    /\ m_call = NoMigrateCall
    /\ state_table = {}
    /\ loads_table = {}
    /\ offset = 0
    /\ state_records = <<>>
    /\ g_idx = 0
    /\ g_pages = <<>>
    /\ p_args = <<>>

\* a caller invokes migrate_pipeline_state(pipeline_name, state, from_engine,
\* to_engine)
CallMigrate ==
    /\ x_pc = "idle"
    /\ \E from \in 0..MaxEngine, to \in 0..MaxEngine, version \in 0..MaxEngine :
       \E s \in MigrateStates(version) :
          /\ version \in {from, 1}
          /\ state' = s
          /\ from_engine' = from
          /\ to_engine' = to
          /\ m_call' = [state |-> s, from_engine |-> from, steps |-> <<>>]
    /\ x_result' = None
    /\ x_pc' = "migrate_67"
    /\ x_fn' = "migrate_pipeline_state"
    /\ UNCHANGED <<rvars, svars, wvars, gvars, p_args>>

\* lines 67-68: if from_engine == to_engine: return state
MigrateSame ==
    /\ x_pc = "migrate_67"
    /\ IF from_engine = to_engine
       THEN x_pc' = "done" /\ x_result' = "return"
       ELSE x_pc' = "migrate_69" /\ x_result' = x_result
    /\ UNCHANGED <<state, from_engine, to_engine, m_call>>
    /\ UNCHANGED <<x_fn, rvars, svars, wvars, gvars, p_args>>

\* lines 69-71: engine 1 to 2
Migrate1to2 ==
    /\ x_pc = "migrate_69"
    /\ IF from_engine = 1 /\ to_engine > 1
       THEN /\ state' = [state EXCEPT !["_local"] = "{}"]
            /\ from_engine' = 2
            /\ m_call' = [m_call EXCEPT !.steps = Append(@, 1)]
       ELSE UNCHANGED <<state, from_engine, m_call>>
    /\ x_pc' = "migrate_72"
    /\ UNCHANGED <<to_engine, x_result>>
    /\ UNCHANGED <<x_fn, rvars, svars, wvars, gvars, p_args>>

\* engine 2 to 3 applied whatever the target engine
Migrate2to3_any_target ==
    /\ x_pc = "migrate_72"
    /\ IF from_engine = 2
       THEN /\ state' = [state EXCEPT !["_version_hash"] =
                                         generate_pipeline_state_version_hash(state)]
            /\ from_engine' = 3
            /\ m_call' = [m_call EXCEPT !.steps = Append(@, 2)]
       ELSE UNCHANGED <<state, from_engine, m_call>>
    /\ x_pc' = "migrate_76"
    /\ UNCHANGED <<to_engine, x_result>>
    /\ UNCHANGED <<x_fn, rvars, svars, wvars, gvars, p_args>>

\* lines 72-75: engine 2 to 3
Migrate2to3 ==
    /\ x_pc = "migrate_72"
    /\ IF from_engine = 2 /\ to_engine > 2
       THEN /\ state' = [state EXCEPT !["_version_hash"] =
                                         generate_pipeline_state_version_hash(state)]
            /\ from_engine' = 3
            /\ m_call' = [m_call EXCEPT !.steps = Append(@, 2)]
       ELSE UNCHANGED <<state, from_engine, m_call>>
    /\ x_pc' = "migrate_76"
    /\ UNCHANGED <<to_engine, x_result>>
    /\ UNCHANGED <<x_fn, rvars, svars, wvars, gvars, p_args>>

\* lines 77-84: destination and staging become a type and a name
rename_destination(s) ==
    LET Truthy(value) == value \notin {Absent, None, ""}
        s1 == IF Truthy(s["destination"])
              THEN [s EXCEPT !["destination_type"] = s["destination"],
                             !["destination_name"] = to_name(s["destination"]),
                             !["destination"] = Absent]
              ELSE s
    IN  IF Truthy(s1["staging"])
        THEN [s1 EXCEPT !["staging_type"] = s1["staging"],
                        !["staging_name"] = to_name(s1["staging"]),
                        !["staging"] = Absent]
        ELSE s1

\* lines 76-85: engine 3 to 4
Migrate3to4 ==
    /\ x_pc = "migrate_76"
    /\ IF from_engine = 3 /\ to_engine > 3
       THEN /\ state' = rename_destination(state)
            /\ from_engine' = 4
            /\ m_call' = [m_call EXCEPT !.steps = Append(@, 3)]
       ELSE UNCHANGED <<state, from_engine, m_call>>
    /\ x_pc' = "migrate_88"
    /\ UNCHANGED <<to_engine, x_result>>
    /\ UNCHANGED <<x_fn, rvars, svars, wvars, gvars, p_args>>

\* lines 88-93: no upgrade path, or the new engine version is stored
MigrateCheck ==
    /\ x_pc = "migrate_88"
    /\ IF from_engine # to_engine
       THEN /\ x_result' = "PipelineStateEngineNoUpgradePathException"
            /\ state' = state
       ELSE /\ x_result' = "return"
            /\ state' = [state EXCEPT !["_state_engine_version"] = from_engine]
    /\ x_pc' = "done"
    /\ UNCHANGED <<from_engine, to_engine, m_call>>
    /\ UNCHANGED <<x_fn, rvars, svars, wvars, gvars, p_args>>

\* ------------------------------------------ WeaviateClient.get_stored_state

\* most state records a pipeline has stored
MaxStates == 12

\* most of them that have a record in the loads table
MaxLoads == 2

\* line 491: stepsize = 10
stepsize == 10

\* the records oldest first
sort_asc(ids) ==
    [k \in 1..Cardinality(ids) |->
        CHOOSE i \in ids : Cardinality({j \in ids : j <= i}) = k]

\* sort={"path": ["_dlt_load_id"], "order": "desc"}: the k-th record is the
\* one with k records at least as new as itself
sort_desc(ids) ==
    [k \in 1..Cardinality(ids) |->
        CHOOSE i \in ids : Cardinality({j \in ids : j >= i}) = k]

\* get_records(state_table_name, sort, where, limit, offset): at most limit
\* records of the pipeline after the first offset ones
get_records(table, limit, off) ==
    LET sorted == sort_desc(table) IN
    SubSeq(sorted, off + 1, IF off + limit < Len(sorted) THEN off + limit
                            ELSE Len(sorted))

\* StateInfo(**state) for the state record of a load id
StateInfo(load_id) == "StateInfo(" \o ToString(load_id) \o ")"

\* a caller invokes get_stored_state(pipeline_name) on a destination that
\* holds some state records and some loads records
CallGetStoredState ==
    /\ x_pc = "idle"
    /\ \E n \in 0..MaxStates :
       \E loads \in {l \in SUBSET (1..(n + 1)) : Cardinality(l) <= MaxLoads} :
          /\ state_table' = 1..n
          /\ loads_table' = loads
    /\ offset' = 0
    /\ state_records' = <<>>
    /\ g_idx' = 0
    /\ g_pages' = <<>>
    /\ x_result' = None
    /\ x_pc' = "stored_state_493"
    /\ x_fn' = "get_stored_state"
    /\ UNCHANGED <<rvars, svars, wvars, mvars, p_args>>

\* lines 493-507: the next page of state records, newest first; None when
\* the page is empty
GetStatePage ==
    /\ x_pc = "stored_state_493"
    /\ LET page == get_records(state_table, stepsize, offset) IN
       /\ state_records' = page
       /\ IF Len(page) = 0
          THEN x_result' = None /\ x_pc' = "done" /\ g_idx' = g_idx
          ELSE x_result' = x_result /\ x_pc' = "stored_state_508" /\ g_idx' = 1
    /\ offset' = offset + stepsize
    /\ g_pages' = Append(g_pages, [offset |-> offset, limit |-> stepsize])
    /\ UNCHANGED <<state_table, loads_table>>
    /\ UNCHANGED <<x_fn, rvars, svars, wvars, mvars, p_args>>

\* lines 508-522: one iteration of `for state in state_records`; the state is
\* returned if its load id has a record in the loads table
ScanState ==
    /\ x_pc = "stored_state_508"
    /\ IF g_idx > Len(state_records)
       THEN /\ x_pc' = "stored_state_493"
            /\ UNCHANGED <<x_result, g_idx>>
       ELSE LET load_id == state_records[g_idx]
                load_records == IF load_id \in loads_table THEN <<load_id>> ELSE <<>>
            IN  IF Len(load_records) > 0
                THEN /\ x_result' = StateInfo(load_id)
                     /\ x_pc' = "done"
                     /\ g_idx' = g_idx
                ELSE /\ g_idx' = g_idx + 1
                     /\ UNCHANGED <<x_pc, x_result>>
    /\ UNCHANGED <<state_table, loads_table, offset, state_records, g_pages>>
    /\ UNCHANGED <<x_fn, rvars, svars, wvars, mvars, p_args>>

\* ------------------------------------------------- wrap_weaviate_error

\* "pattern in str(ex)": the words of pattern occur in the text, adjacent
\* and in order
in_str(pattern, text) ==
    \E i \in 0..(Len(text) - Len(pattern)) :
        SubSeq(text, i + 1, i + Len(pattern)) = pattern

\* the decorator without its last except clause
wrap_weaviate_error_no_base(ex) ==
    IF ex.class = None THEN "return"
    ELSE IF {"ObjectAlreadyExistsException", "SchemaValidationException",
             "WeaviateEmbeddedInvalidVersion"} \cap ex.mro # {}
    THEN "DestinationTerminalException"
    ELSE IF "UnexpectedStatusCodeException" \in ex.mro
    THEN IF ex.status_code = 404 THEN "DestinationUndefinedEntity"
         ELSE IF ex.status_code = 403 THEN "DestinationTerminalException"
         ELSE IF ex.status_code = 422
         THEN IF \/ in_str(<<"conflict", "for", "property">>, ex.str)
                 \/ in_str(<<"none", "vectorizer", "module">>, ex.str)
              THEN "PropertyNameConflict"
              ELSE "DestinationTerminalException"
         ELSE "DestinationTransientException"
    ELSE ex.class

\* what the wrapped method gives its caller when the call it wraps returns
\* (ex.class = None) or raises ex: the except clauses in source order, each
\* matching the classes of ex's method resolution order; an exception no
\* clause matches propagates as it is
wrap_weaviate_error(ex) ==
    IF ex.class = None THEN "return"
    ELSE IF {"ObjectAlreadyExistsException", "SchemaValidationException",
             "WeaviateEmbeddedInvalidVersion"} \cap ex.mro # {}
    THEN "DestinationTerminalException"
    ELSE IF "UnexpectedStatusCodeException" \in ex.mro
    THEN IF ex.status_code = 404 THEN "DestinationUndefinedEntity"
         ELSE IF ex.status_code = 403 THEN "DestinationTerminalException"
         ELSE IF ex.status_code = 422
         THEN IF \/ in_str(<<"conflict", "for", "property">>, ex.str)
                 \/ in_str(<<"none", "vectorizer", "module">>, ex.str)
              THEN "PropertyNameConflict"
              ELSE "DestinationTerminalException"
         ELSE "DestinationTransientException"
    ELSE IF "WeaviateBaseError" \in ex.mro
    THEN "DestinationTransientException"
    ELSE ex.class

\* a wrapped client method is called; the call it wraps returns, or raises
\* one of the Weaviate errors or an error of another library
CallWrapWeaviateError ==
    /\ x_pc = "idle"
    /\ \E class \in {None, "ObjectAlreadyExistsException", "SchemaValidationException",
                     "WeaviateEmbeddedInvalidVersion", "UnexpectedStatusCodeException",
                     "AuthenticationFailedException", "WeaviateBaseError", "ValueError"} :
       \E status_code \in {200, 401, 403, 404, 422, 500} :
       \E str \in {<<"not", "found">>,
                   <<"conflict", "for">>,
                   <<"name", "conflict", "for", "property", "value">>,
                   <<"has", "none", "vectorizer", "module">>,
                   <<"vectorizer", "module", "none">>} :
          LET ex == [class |-> class,
                     mro |-> IF class \in {None, "ValueError"}
                             THEN {class, "Exception"}
                             ELSE {class, "WeaviateBaseError", "Exception"},
                     status_code |-> IF class = "UnexpectedStatusCodeException"
                                     THEN status_code ELSE 0,
                     str |-> str]
          IN  /\ p_args' = <<ex>>
              /\ x_result' = wrap_weaviate_error(ex)
    /\ x_pc' = "done"
    /\ x_fn' = "wrap_weaviate_error"
    /\ UNCHANGED <<rvars, svars, wvars, mvars, gvars>>

\* ----------------------------------------- LoadWeaviateJob.generate_uuid

\* sep.join(parts)
RECURSIVE join(_, _)
join(sep, parts) ==
    IF parts = <<>> THEN ""
    ELSE IF Len(parts) = 1 THEN parts[1]
    ELSE parts[1] \o sep \o join(sep, Tail(parts))

\* line 223: the str() of the values of the unique-identifier columns, in the
\* order of the columns, joined by an underscore; a value is its Python type
\* and the text str() gives for it
data_id(data, unique_identifiers) ==
    join("_", [k \in 1..Len(unique_identifiers) |-> data[unique_identifiers[k]].str])

\* lines 220-224; generate_uuid5(identifier, namespace) is the UUID5 of
\* str(namespace) + str(identifier), one id per such text
generate_uuid(data, unique_identifiers, class_name) ==
    "uuid5(" \o class_name \o data_id(data, unique_identifiers) \o ")"

\* load_batch (lines 204-216) reads two lines of a load file of one class and
\* generates the id of each
CallGenerateUuid ==
    /\ x_pc = "idle"
    /\ \E class_name \in {"Customer", "Order"} :
       \E unique_identifiers \in {<<"k1">>, <<"k1", "k2">>} :
       LET keys == {[type |-> "str", str |-> "a"], [type |-> "str", str |-> "a_b"],
                    [type |-> "str", str |-> "b_c"], [type |-> "str", str |-> "c"],
                    [type |-> "str", str |-> "1"], [type |-> "int", str |-> "1"]}
           lines == {d \in [{"k1", "k2", "other"} -> keys] :
                        d["other"].str \in {"a", "c"}}
       IN  \E data1 \in lines, data2 \in lines :
              /\ p_args' = <<data1, data2, unique_identifiers, class_name>>
              /\ x_result' =
                    <<[data_id |-> data_id(data1, unique_identifiers),
                       uuid |-> generate_uuid(data1, unique_identifiers, class_name)],
                      [data_id |-> data_id(data2, unique_identifiers),
                       uuid |-> generate_uuid(data2, unique_identifiers, class_name)]>>
    /\ x_pc' = "done"
    /\ x_fn' = "generate_uuid"
    /\ UNCHANGED <<rvars, svars, wvars, mvars, gvars>>

\* ----------------------------------------------- DataWriterMetrics.__add__

\* the addition keeping the created time of its left operand
DataWriterMetrics_add_left_created(this, other) ==
    IF other.class = "DataWriterMetrics"
    THEN [class |-> "DataWriterMetrics",
          file_path |-> "",
          items_count |-> this.items_count + other.items_count,
          file_size |-> this.file_size + other.file_size,
          created |-> this.created,
          last_modified |-> IF this.last_modified >= other.last_modified
                            THEN this.last_modified ELSE other.last_modified]
    ELSE "NotImplemented"

\* lines 61-70; created and last_modified are counted in units of 2**16
\* seconds, which min and max do not see
DataWriterMetrics_add(this, other) ==
    IF other.class = "DataWriterMetrics"
    THEN [class |-> "DataWriterMetrics",
          file_path |-> "",
          items_count |-> this.items_count + other.items_count,
          file_size |-> this.file_size + other.file_size,
          created |-> IF this.created <= other.created
                      THEN this.created ELSE other.created,
          last_modified |-> IF this.last_modified >= other.last_modified
                            THEN this.last_modified ELSE other.last_modified]
    ELSE "NotImplemented"

\* line 73: DataWriterMetrics("", 0, 0, 2**32, 0.0), 2**32 seconds being
\* 65536 units
EMPTY_DATA_WRITER_METRICS ==
    [class |-> "DataWriterMetrics", file_path |-> "", items_count |-> 0,
     file_size |-> 0, created |-> 65536, last_modified |-> 0]

\* a caller adds up the metrics a, b and c of three files, in both orders and
\* both groupings, and adds the empty metrics to a on either side
CallMetricsAdd ==
    /\ x_pc = "idle"
    /\ LET metrics == [class : {"DataWriterMetrics"},
                       file_path : {"f.jsonl"},
                       items_count : {0, 2},
                       file_size : {0, 3},
                       created : {5, 65536, 65537},
                       last_modified : {-1, 0, 7}]
       IN  \E a \in metrics, b \in metrics, c \in metrics :
              /\ p_args' = <<a, b, c>>
              /\ x_result' =
                    [ab |-> DataWriterMetrics_add(a, b),
                     ba |-> DataWriterMetrics_add(b, a),
                     ab_c |-> DataWriterMetrics_add(DataWriterMetrics_add(a, b), c),
                     a_bc |-> DataWriterMetrics_add(a, DataWriterMetrics_add(b, c)),
                     a_empty |-> DataWriterMetrics_add(a, EMPTY_DATA_WRITER_METRICS),
                     empty_a |-> DataWriterMetrics_add(EMPTY_DATA_WRITER_METRICS, a)]
    /\ x_pc' = "done"
    /\ x_fn' = "DataWriterMetrics.__add__"
    /\ UNCHANGED <<rvars, svars, wvars, mvars, gvars>>

\* ------------------------------------------------------------ the calls

\* the caller takes the result
CallsFinish ==
    /\ x_pc = "done"
    /\ x_fn' = None
    /\ x_pc' = "idle"
    /\ x_result' = None
    /\ state' = NoMigrateCall.state
    /\ from_engine' = 0
    /\ to_engine' = 0
    /\ m_call' = NoMigrateCall
    /\ state_table' = {}
    /\ loads_table' = {}
    /\ offset' = 0
    /\ state_records' = <<>>
    /\ g_idx' = 0
    /\ g_pages' = <<>>
    /\ p_args' = <<>>
    /\ UNCHANGED <<rvars, svars, wvars>>

\* the steps of the calls outside the data writers
NextCalls ==
    \/ CallMigrate
    \/ MigrateSame
    \/ Migrate1to2
    \/ Migrate2to3
    \/ Migrate3to4
    \/ MigrateCheck
    \/ CallGetStoredState
    \/ GetStatePage
    \/ ScanState
    \/ CallWrapWeaviateError
    \/ CallGenerateUuid
    \/ CallMetricsAdd
    \/ CallsFinish

\* -------------------------------------------------------- specifications

Init ==
    /\ ResolverInit
    /\ LookupInit
    /\ WriterInit
    /\ CallsInit

\* callers of resolve_best_writer_spec and get_best_writer_spec
Spec == Init /\ [][Next]_vars

\* callers of writer_class_from_spec
SpecLookup == Init /\ [][NextLookup]_vars

\* the life of one writer instance, calls in any order
SpecWriter == Init /\ [][NextWriter]_vars

\* callers of migrate_pipeline_state, get_stored_state, wrap_weaviate_error,
\* generate_uuid and DataWriterMetrics.__add__
SpecCalls == Init /\ [][NextCalls]_vars

\* the same callers, a get_stored_state call that can take a step eventually
\* taking it
SpecCallsFair == SpecCalls /\ WF_vars(GetStatePage \/ ScanState)

\* --------------------------------------------------- vocabulary of the claims

\* the registered writer classes
Registered == {ALL_WRITERS[k] : k \in DOMAIN ALL_WRITERS}

\* the writers composed from the representation adapter (class statements
\* ArrowToInsertValuesWriter, ArrowToJsonlWriter, ArrowToTypedJsonlListWriter)
AdapterBuilt == {w \in Registered : \E k \in DOMAIN Bases(w) :
                                        Bases(w)[k] = "ArrowToObjectAdapter"}

\* the registered writers declaring the pair (fmt, rep)
WritersFor(rep, fmt) ==
    {w \in Registered : /\ writer_spec(w).file_format = fmt
                        /\ writer_spec(w).data_item_format = rep}

\* those of them that are not adapter-built
NativeFor(rep, fmt) == WritersFor(rep, fmt) \ AdapterBuilt

\* the elements of a sequence
Range(s) == {s[k] : k \in DOMAIN s}

\* the candidates other than the preferred format, in the caller's order
Others(formats, pref) ==
    LET keep(f) == f # pref IN SelectSeq(formats, keep)

\* the four tiers as one list of lookups
TierOrder(formats, pref) ==
    LET p == IF pref # None THEN <<pref>> ELSE <<>>
        o == Others(formats, pref)
        tier(s, index) == [k \in DOMAIN s |-> Lookup(s[k], index)]
    IN  tier(p, "native") \o tier(o, "native") \o tier(p, "all") \o tier(o, "all")

\* the writers a lookup of the tier list can match
Matches(rep, lk) ==
    IF lk.index = "native" THEN NativeFor(rep, lk.file_format)
    ELSE WritersFor(rep, lk.file_format)

\* position of the first lookup of the tier list with a match, 0 if none
FirstMatch(rep, tiers) ==
    LET hits == {k \in DOMAIN tiers : Matches(rep, tiers[k]) # {}} IN
    IF hits = {} THEN 0 ELSE CHOOSE k \in hits : \A j \in hits : k <= j

\* a resolve_best_writer_spec call has ended
ResolveDone == pc = "done" /\ fn = "resolve_best_writer_spec"

\* a get_best_writer_spec call has ended
GetBestDone == pc = "done" /\ fn = "get_best_writer_spec"

\* the preferred format is absent or among the candidates
PreferredAdmissible ==
    preferred_format = None \/ preferred_format \in Range(possible_file_formats)

\* --------------------------------------------------------------------- claims

\* C1: with the preferred format absent or among the candidates,
\* resolve_best_writer_spec returns the spec of the first match of the order
\* native(preferred), native(other candidates in caller order),
\* any(preferred), any(other candidates in caller order); it performs exactly
\* the lookups of that order up to the match, so equal inputs give equal specs.
C1_TierOrder ==
    (ResolveDone /\ PreferredAdmissible) =>
        LET tiers == TierOrder(possible_file_formats, preferred_format)
            m == FirstMatch(item_format, tiers)
        IN  m # 0 =>
              /\ result.kind = "return"
              /\ result.spec \in {writer_spec(w) : w \in Matches(item_format, tiers[m])}
              /\ lookups = SubSeq(tiers, 1, m)

\* C1 witness: a call with a preferred format and two other candidates that
\* is answered in the last tier, after every earlier tier missed
C1_Witness ==
    /\ ResolveDone
    /\ result.kind = "return"
    /\ preferred_format # None
    /\ Len(possible_file_formats) = 3
    /\ Len(lookups) >= 5
    /\ lookups[Len(lookups)].index = "all"
    /\ lookups[Len(lookups)].file_format # preferred_format

\* C2: if the preferred format is among the candidates and a native writer
\* exists for (item_format, preferred_format), the call returns that native
\* writer's spec, and the spec of no adapter-built writer.
C2_PreferredNativeWins ==
    (/\ ResolveDone
     /\ preferred_format \in Range(possible_file_formats)
     /\ NativeFor(item_format, preferred_format) # {}) =>
        /\ result.kind = "return"
        /\ result.spec \in {writer_spec(w) : w \in NativeFor(item_format, preferred_format)}
        /\ result.spec \notin {writer_spec(w) : w \in AdapterBuilt}

\* C2 witness: the preferred native format wins although an earlier candidate
\* has a writer too
C2_Witness ==
    /\ ResolveDone
    /\ item_format = "arrow"
    /\ Len(possible_file_formats) >= 2
    /\ possible_file_formats[1] # preferred_format
    /\ WritersFor(item_format, possible_file_formats[1]) # {}
    /\ preferred_format \in Range(possible_file_formats)
    /\ NativeFor(item_format, preferred_format) # {}
    /\ result.kind = "return"
    /\ result.spec.file_format = preferred_format

\* C3 as stated: whenever the preferred format is among the candidates and
\* any registered writer exists for (item_format, preferred_format), the
\* returned spec has file_format = preferred_format.
C3_Original ==
    (/\ ResolveDone
     /\ preferred_format \in Range(possible_file_formats)
     /\ WritersFor(item_format, preferred_format) # {}) =>
        /\ result.kind = "return"
        /\ result.spec.file_format = preferred_format

\* some candidate other than the preferred format has a native writer
OtherNative ==
    \E k \in DOMAIN possible_file_formats :
        /\ possible_file_formats[k] # preferred_format
        /\ NativeFor(item_format, possible_file_formats[k]) # {}

\* C3 amended: with the preferred format among the candidates and a writer
\* registered for it, the call returns a spec; its file_format is the
\* preferred format exactly when the preferred format has a native writer or
\* no other candidate has one, and otherwise it is the first other candidate
\* that has a native writer.
C3_PreferredUnlessOtherNative ==
    (/\ ResolveDone
     /\ preferred_format \in Range(possible_file_formats)
     /\ WritersFor(item_format, preferred_format) # {}) =>
        /\ result.kind = "return"
        /\ (result.spec.file_format = preferred_format) <=>
              (NativeFor(item_format, preferred_format) # {} \/ ~ OtherNative)
        /\ result.spec.file_format # preferred_format =>
              LET first == CHOOSE k \in DOMAIN possible_file_formats :
                      /\ possible_file_formats[k] # preferred_format
                      /\ NativeFor(item_format, possible_file_formats[k]) # {}
                      /\ \A j \in 1..(k - 1) :
                            \/ possible_file_formats[j] = preferred_format
                            \/ NativeFor(item_format, possible_file_formats[j]) = {}
              IN  /\ result.spec.file_format = possible_file_formats[first]
                  /\ result.spec \notin {writer_spec(w) : w \in AdapterBuilt}

\* C3 witness: the preferred format has only an adapted writer and no other
\* candidate has a native one, so the adapted writer of the preferred format
\* is returned
C3_Witness ==
    /\ ResolveDone
    /\ preferred_format \in Range(possible_file_formats)
    /\ Len(possible_file_formats) >= 2
    /\ NativeFor(item_format, preferred_format) = {}
    /\ WritersFor(item_format, preferred_format) # {}
    /\ result.kind = "return"
    /\ result.spec.file_format = preferred_format
    /\ result.spec \in {writer_spec(w) : w \in AdapterBuilt}

\* C4 as stated: a preferred format that is not among the candidates makes
\* the call fail before any registry index has been read.
C4_Original ==
    (/\ ResolveDone
     /\ preferred_format # None
     /\ preferred_format \notin Range(possible_file_formats)) =>
        /\ result = Raised("ValueError")
        /\ reads = <<>>

\* C4 amended: a preferred format that is not among the candidates makes the
\* call fail with ValueError for every item_format and candidate list, before
\* any writer lookup has run and before ALL_WRITERS has been read; the native
\* partition of item_format is the one index read by then (line 689).
C4_FailsBeforeLookups ==
    (/\ ResolveDone
     /\ preferred_format # None
     /\ preferred_format \notin Range(possible_file_formats)) =>
        /\ result = Raised("ValueError")
        /\ lookups = <<>>
        /\ reads = <<"NATIVE_FORMAT_WRITERS">>
        /\ native_writers = NATIVE_FORMAT_WRITERS[item_format]

\* C4 witness: the call failed on a preferred format outside a non-empty
\* candidate list whose formats all have writers
C4_Witness ==
    /\ ResolveDone
    /\ result = Raised("ValueError")
    /\ Len(possible_file_formats) >= 2
    /\ \A k \in DOMAIN possible_file_formats :
          NativeFor(item_format, possible_file_formats[k]) # {}
    /\ WritersFor(item_format, preferred_format) # {}

\* C5: with the preferred format absent or among the candidates, the call
\* raises SpecLookupFailed if and only if no registered writer exists for
\* item_format with any candidate format, and returns a spec otherwise.
C5_FailsIffNoWriter ==
    (ResolveDone /\ PreferredAdmissible) =>
        LET none == \A k \in DOMAIN possible_file_formats :
                        WritersFor(item_format, possible_file_formats[k]) = {}
        IN  /\ (result = Raised("SpecLookupFailed")) <=> none
            /\ ~ none => result.kind = "return"

\* C5 witness: every candidate of a list of two or more was looked up among
\* the native writers and among all writers, and the call raised
\* SpecLookupFailed
C5_Witness ==
    /\ ResolveDone
    /\ result = Raised("SpecLookupFailed")
    /\ Len(possible_file_formats) >= 2
    /\ Len(lookups) = 2 * Len(possible_file_formats)

\* C6: for every registered writer w, get_best_writer_spec called with the
\* pair (data_item_format, file_format) of w's spec returns a spec equal to
\* w's spec in every field.
C6_RegistryRoundTrip ==
    GetBestDone =>
        \A w \in Registered :
            (/\ writer_spec(w).data_item_format = item_format
             /\ writer_spec(w).file_format = file_format) =>
                /\ result.kind = "return"
                /\ \A f \in SpecFields : result.spec[f] = writer_spec(w)[f]

\* C6 witness: the round trip of an adapter-built writer's spec, which only
\* the full writer list can answer
C6_Witness ==
    /\ GetBestDone
    /\ item_format = writer_spec("ArrowToInsertValuesWriter").data_item_format
    /\ file_format = writer_spec("ArrowToInsertValuesWriter").file_format
    /\ result.kind = "return"
    /\ result.spec.requires_destination_capabilities
    /\ result.spec.data_item_format = "arrow"

\* C7: get_best_writer_spec returns the native writer's spec for the pair
\* when one exists (found by the first lookup), otherwise the adapted
\* writer's spec (found by the second lookup, over all writers), and raises
\* FileFormatForItemFormatNotFound exactly when no writer declares the pair.
C7_NativeThenAdapted ==
    GetBestDone =>
        IF NativeFor(item_format, file_format) # {}
        THEN /\ result.kind = "return"
             /\ result.spec \in
                    {writer_spec(w) : w \in NativeFor(item_format, file_format)}
             /\ lookups = <<Lookup(file_format, "native")>>
        ELSE IF WritersFor(item_format, file_format) # {}
        THEN /\ result.kind = "return"
             /\ result.spec \in
                    {writer_spec(w) : w \in WritersFor(item_format, file_format)}
             /\ lookups = <<Lookup(file_format, "native"), Lookup(file_format, "all")>>
        ELSE result = Raised(FileFormatForItemFormatNotFound)

\* C7 witness: a pair no writer declares, refused after both lookups
C7_Witness ==
    /\ GetBestDone
    /\ WritersFor(item_format, file_format) = {}
    /\ result.kind = "raise"
    /\ Len(lookups) = 2

\* a sequence in reverse order
Reverse(s) == [k \in DOMAIN s |-> s[Len(s) + 1 - k]]

\* C8: no two entries of ALL_WRITERS declare the same (file_format,
\* data_item_format) pair, so class_factory over ALL_WRITERS gives the same
\* answer for every pair whatever the order of the list, and a returned spec
\* is declared by exactly one registered writer.
C8_UniquePair ==
    /\ \A i, j \in DOMAIN ALL_WRITERS :
          (/\ writer_spec(ALL_WRITERS[i]).file_format =
                writer_spec(ALL_WRITERS[j]).file_format
           /\ writer_spec(ALL_WRITERS[i]).data_item_format =
                writer_spec(ALL_WRITERS[j]).data_item_format) => i = j
    /\ \A rep \in TDataItemFormat, fmt \in TLoaderFileFormat :
          class_factory(fmt, rep, ALL_WRITERS) =
             class_factory(fmt, rep, Reverse(ALL_WRITERS))
    /\ (pc = "done" /\ result.kind = "return") =>
          Cardinality(WritersFor(result.spec.data_item_format,
                                 result.spec.file_format)) = 1

\* C8 witness: a lookup by pair over ALL_WRITERS has returned a writer
C8_Witness ==
    /\ pc = "done"
    /\ result.kind = "return"
    /\ lookups # <<>>
    /\ lookups[Len(lookups)].index = "all"
    /\ reads[Len(reads)] = "ALL_WRITERS"

\* the registered writers declaring a representation
DeclaredFor(rep) ==
    {w \in Registered : writer_spec(w).data_item_format = rep}

\* C9: for each representation the native set NATIVE_FORMAT_WRITERS[rep] and
\* the adapter-built writers declaring rep are disjoint, their union is the
\* set of all registered writers declaring rep, and no adapter-built writer
\* is in the native set; the native_writers a call works with is that set.
C9_Partition ==
    /\ \A rep \in TDataItemFormat :
          LET native == Range(NATIVE_FORMAT_WRITERS[rep])
              adapted == DeclaredFor(rep) \cap AdapterBuilt
          IN  /\ native \cap adapted = {}
              /\ native \cup adapted = DeclaredFor(rep)
              /\ native \cap AdapterBuilt = {}
    /\ pc \in {"resolve_691", "get_best_738"} =>
          /\ Range(native_writers) = DeclaredFor(item_format) \ AdapterBuilt
          /\ Len(native_writers) = Cardinality(Range(native_writers))

\* C9 witness: a call for columnar input holds the native partition, the two
\* writers that consume arrow directly, while three more declare arrow
C9_Witness ==
    /\ pc = "resolve_691"
    /\ item_format = "arrow"
    /\ native_writers = <<"ArrowToParquetWriter", "ArrowToCsvWriter">>
    /\ Cardinality(DeclaredFor("arrow") \cap AdapterBuilt) = 3

\* the row-object writer an adapter-built class wraps: its second base
Wrapped(w) == Bases(w)[2]

\* C10: the spec of each adapter-built writer equals the wrapped row-object
\* writer's spec in every field except data_item_format, which is "arrow";
\* a spec a call obtains from the full writer list after the native lookup
\* missed is such a spec.
C10_AdaptedSpec ==
    /\ \A w \in AdapterBuilt :
          /\ \A f \in SpecFields \ {"data_item_format"} :
                writer_spec(w)[f] = writer_spec(Wrapped(w))[f]
          /\ writer_spec(w).data_item_format = "arrow"
          /\ writer_spec(Wrapped(w)).data_item_format = "object"
    /\ (/\ pc = "done"
        /\ result.kind = "return"
        /\ lookups[Len(lookups)].index = "all") =>
          \E w \in AdapterBuilt :
              /\ writer_spec(Wrapped(w)).file_format = lookups[Len(lookups)].file_format
              /\ \A f \in SpecFields \ {"data_item_format"} :
                    result.spec[f] = writer_spec(Wrapped(w))[f]
              /\ result.spec.data_item_format = "arrow"

\* C10 witness: a call returned the spec of the adapted SQL-insert writer,
\* which carries the wrapped writer's two defaulted fields
C10_Witness ==
    /\ pc = "done"
    /\ result.kind = "return"
    /\ lookups[Len(lookups)].index = "all"
    /\ result.spec.file_format = "insert_values"
    /\ result.spec.requires_destination_capabilities
    /\ result.spec.supports_compression
    /\ ~ result.spec.is_binary_format

\* C11: writer_class_from_spec returns w for the spec of every registered
\* writer w, and raises FileSpecNotFound for every spec value that differs
\* from each registered spec in at least one field.
C11_LookupExact ==
    lk_pc = "done" =>
        /\ \A w \in Registered : lk_spec = writer_spec(w) => lk_result = w
        /\ (\A w \in Registered : \E f \in SpecFields : lk_spec[f] # writer_spec(w)[f])
              => lk_result = FileSpecNotFound

\* C11 witness: a spec that has the pair of a registered writer and differs
\* from that writer's spec in one other field alone is refused
C11_Witness ==
    /\ lk_pc = "done"
    /\ lk_result = FileSpecNotFound
    /\ \E w \in Registered :
          Cardinality({f \in SpecFields : lk_spec[f] # writer_spec(w)[f]}) = 1
          /\ lk_spec.file_format = writer_spec(w).file_format
          /\ lk_spec.data_item_format = writer_spec(w).data_item_format

\* ------------------------------------------------ the SQL-insert writers

\* the instance is an InsertValuesWriter or its arrow adapter
IsInsertValues == self.cls \in {"InsertValuesWriter", "ArrowToInsertValuesWriter"}

\* the sink as one string
Text(tokens) == Join(tokens, "")

\* what the last call appended to the sink
Written == SubSeq(sink, call.sink_before + 1, Len(sink))

\* the separator of the dialect the instance was constructed with
DialectSep == IF self.caps = "default" THEN ",\n" ELSE " UNION ALL\n"

\* the header text for the declared columns
HeaderText(names) ==
    "INSERT INTO {}("
    \o Join([i \in DOMAIN names |-> "\"" \o names[i] \o "\""], ",")
    \o ")\n"
    \o (IF self.caps = "default" THEN "VALUES\n" ELSE "")

\* the values of a row: one per declared column, in declared order
ValuesText(names, row) ==
    Join([i \in DOMAIN names |->
             IF \E k \in DOMAIN row : row[k][1] = names[i]
             THEN "E(" \o row[CHOOSE k \in DOMAIN row : row[k][1] = names[i]][2] \o ")"
             ELSE "NULL"], ",")

\* a row as the dialect frames it
RowText(names, row) ==
    IF self.caps = "default" THEN "(" \o ValuesText(names, row) \o ")"
    ELSE "SELECT " \o ValuesText(names, row)

\* the rows joined by one separator
RowsText(names, rows) ==
    Join([k \in DOMAIN rows |-> RowText(names, rows[k])], DialectSep)

\* one write_header, then write_data calls that all returned, then write_footer
OneStatement ==
    /\ IsInsertValues
    /\ ~hist.errored
    /\ ~hist.closed
    /\ hist.headers = 1
    /\ hist.footers = 1
    /\ call.op = "write_footer"

C13_FooterIffChunk ==
    (self.cls = "InsertValuesWriter" /\ call.op = "write_footer") =>
        /\ call.exc = None
        /\ Written = (IF hist.chunks_ok > 0 THEN <<";">> ELSE <<>>)
        /\ (hist.headers = 1 /\ hist.records_in = 0 /\ ~hist.errored)
              => Text(sink) = HeaderText(self.headers_lookup)

\* a header, an empty write_data and a footer: the sink holds the header only
C13_Witness ==
    /\ self.cls = "InsertValuesWriter"
    /\ call.op = "write_footer"
    /\ hist.headers = 1
    /\ hist.ops = 3
    /\ hist.records_in = 0
    /\ ~hist.errored
    /\ Written = <<>>
    /\ sink # <<>>

\* the last call was a write_data of an InsertValuesWriter with a declared
\* header, and some row of the batch has a key that is not a declared column
UndeclaredKey ==
    /\ self.cls = "InsertValuesWriter"
    /\ call.op = "write_data"
    /\ self.headers_lookup # NoneSeq
    /\ \E k \in DOMAIN call.arg : \E i \in DOMAIN call.arg[k] :
          call.arg[k][i][1] \notin Range(self.headers_lookup)

\* the first row of the batch with an undeclared key
FirstUndeclared ==
    CHOOSE k \in DOMAIN call.arg :
        /\ \E i \in DOMAIN call.arg[k] :
              call.arg[k][i][1] \notin Range(self.headers_lookup)
        /\ \A j \in 1..(k - 1) : \A i \in DOMAIN call.arg[j] :
              call.arg[j][i][1] \in Range(self.headers_lookup)

\* C14 as stated: a row with a key that is not a declared column raises no
\* error and is written with the values of the declared columns
C14_Original ==
    UndeclaredKey =>
        /\ call.exc = None
        /\ Text(Written) = (IF hist.chunks_ok > 1 THEN DialectSep ELSE "")
                           \o RowsText(self.headers_lookup, call.arg)

\* C14: write_data of InsertValuesWriter given a row with a key that is not a
\* declared column raises KeyError: the rows before it are written, each
\* followed by a separator, that row and the rows after it are not, the chunk
\* is not counted and items_count has advanced by the whole batch
C14_UndeclaredKeyRaises ==
    UndeclaredKey =>
        /\ call.exc = "KeyError"
        /\ Text(Written) =
              (IF hist.chunks_ok > 0 THEN DialectSep ELSE "")
              \o Join([k \in 1..(FirstUndeclared - 1) |->
                          RowText(self.headers_lookup, call.arg[k]) \o DialectSep], "")
        /\ self.chunks_written = hist.chunks_ok
        /\ self.items_count = hist.records_in

\* a batch whose second row has an undeclared key, after a first chunk
C14_Witness ==
    /\ UndeclaredKey
    /\ FirstUndeclared = 2
    /\ hist.chunks_ok = 1

\* C15: the SQL-insert writers render every row as one value per declared
\* column, in declared order whatever the order of the row's keys, with NULL
\* for every declared column the row does not contain
C15_PositionalRow ==
    (self.cls = "InsertValuesWriter" /\ call.op = "write_data" /\ call.exc = None) =>
        LET body == IF hist.chunks_ok > 1 /\ call.arg # <<>> THEN Tail(Written)
                    ELSE Written
        IN  \A k \in DOMAIN call.arg :
               body[4 * (k - 1) + 2] = ValuesText(self.headers_lookup, call.arg[k])

\* a row whose keys come in another order than the columns, and a row that
\* lacks a column, written in one call
C15_Witness ==
    /\ self.cls = "InsertValuesWriter"
    /\ call.op = "write_data"
    /\ call.exc = None
    /\ \E k \in DOMAIN call.arg :
          /\ Len(call.arg[k]) = Len(self.headers_lookup)
          /\ Keys(call.arg[k]) # self.headers_lookup
    /\ \E k \in DOMAIN call.arg : Len(call.arg[k]) < Len(self.headers_lookup)

\* ------------------------------------------------ every registered writer

\* the step is a call of the method op on the instance
Step(op) == hist'.ops = hist.ops + 1 /\ call'.op = op

\* the instance is one of the three adapted writers
IsAdapted == self.cls \in {"ArrowToInsertValuesWriter", "ArrowToJsonlWriter",
                            "ArrowToTypedJsonlListWriter"}

\* C16 as stated: after write_data calls that all returned, items_count is
\* the number of records passed in, for every registered writer
C16_Original ==
    (self # NoInstance /\ ~hist.errored) => self.items_count = hist.records_ok

\* a CsvWriter whose counter has run ahead of the rows it was given
C16_Witness ==
    /\ self.cls = "CsvWriter"
    /\ ~hist.errored
    /\ hist.records_ok = 1
    /\ self.items_count = 3

\* an empty row sequence or, for an adapted writer, batches of zero rows only
EmptyBatch(arg) ==
    \/ arg = <<>>
    \/ IsAdapted /\ \A k \in DOMAIN arg : Len(arg[k].pylist) = 0

\* the call returned and changed neither the sink nor the writer
NoOp == call'.exc = None /\ sink' = sink /\ self' = self

\* C17 as stated: write_data with an empty batch is a no-op on every
\* registered writer
C17_Original ==
    [][(Step("write_data") /\ EmptyBatch(call'.arg)) => NoOp]_vars

\* C17, the writers that keep it: write_data with an empty row sequence is a
\* no-op on JsonlWriter, InsertValuesWriter, ArrowToParquetWriter,
\* ArrowToCsvWriter and the three adapted writers, and on CsvWriter between
\* write_header and close; batches of zero rows are a no-op on
\* ArrowToJsonlWriter and ArrowToInsertValuesWriter
C17_EmptyBatchNoOp ==
    [][(/\ Step("write_data")
        /\ EmptyBatch(call'.arg)
        /\ self.cls \notin {"TypedJsonlListWriter", "ParquetDataWriter"}
        /\ self.cls = "ArrowToTypedJsonlListWriter" => call'.arg = <<>>
        /\ self.cls = "CsvWriter" => self.writer = "open")
       => NoOp]_vars

\* a TypedJsonlListWriter given an empty batch has written a line
C17_Witness ==
    /\ self.cls = "TypedJsonlListWriter"
    /\ call.op = "write_data"
    /\ call.arg = <<>>
    /\ call.exc = None
    /\ Written = <<"[]", "\n">>
    /\ self.items_count = 0

\* C18 as stated: the rows passed to write_data have the same keys and values
\* after the call as before it
C18_Original ==
    call.op = "write_data" => call.arg_after = call.arg

\* the columns of the declared schema that the instance converts in place
Converted == Range(self.complex_indices) \cup Range(self.bytes_indices)

\* the value CsvWriter leaves in a row for an item
CsvValue(item) ==
    IF item[2] = None THEN None
    ELSE IF item[1] \in Range(self.complex_indices) THEN "json(" \o item[2] \o ")"
    ELSE IF item[1] \in Range(self.bytes_indices) THEN "dec(" \o item[2] \o ")"
    ELSE item[2]

\* the value ParquetDataWriter leaves in a row for an item
ParquetValue(item) ==
    IF item[2] # None /\ item[2] \notin {"s1", "s2"}
          /\ item[1] \in Range(self.complex_indices)
    THEN "json(" \o item[2] \o ")" ELSE item[2]

\* C18: write_data leaves the caller's rows as they were, except that
\* CsvWriter and ParquetDataWriter replace values in place and only in complex
\* and binary columns: CsvWriter every non-null complex value by its JSON
\* string and every non-null binary value by its decoded text,
\* ParquetDataWriter every non-null non-string complex value by its JSON
\* string; keys are never added or removed
C18_RowsInPlace ==
    call.op = "write_data" =>
        /\ self.cls \notin {"CsvWriter", "ParquetDataWriter"} => call.arg_after = call.arg
        /\ self.cls \in {"CsvWriter", "ParquetDataWriter"} =>
              /\ Len(call.arg_after) = Len(call.arg)
              /\ \A k \in DOMAIN call.arg :
                    /\ Keys(call.arg_after[k]) = Keys(call.arg[k])
                    /\ \A i \in DOMAIN call.arg[k] :
                          call.arg_after[k][i] # call.arg[k][i]
                             => call.arg[k][i][1] \in Converted
        /\ (self.cls = "CsvWriter" /\ call.exc = None) =>
              \A k \in DOMAIN call.arg : \A i \in DOMAIN call.arg[k] :
                 call.arg_after[k][i][2] = CsvValue(call.arg[k][i])
        /\ (self.cls = "ParquetDataWriter" /\ self.complex_indices # NoneSeq) =>
              \A k \in DOMAIN call.arg : \A i \in DOMAIN call.arg[k] :
                 call.arg_after[k][i][2] = ParquetValue(call.arg[k][i])

\* a ParquetDataWriter call that returned and changed a row of its caller
C18_Witness ==
    /\ self.cls = "ParquetDataWriter"
    /\ call.op = "write_data"
    /\ call.exc = None
    /\ call.arg_after # call.arg

\* C19 as stated: after close(), every write_header, write_data and
\* write_footer is rejected and writes nothing
C19_Original ==
    [][(hist.closed /\ (Step("write_header") \/ Step("write_data") \/ Step("write_footer")))
       => (call'.exc # None /\ sink' = sink)]_vars

\* the writers whose close() does nothing
ClosesNothing == {"JsonlWriter", "TypedJsonlListWriter", "InsertValuesWriter",
                  "ArrowToJsonlWriter", "ArrowToTypedJsonlListWriter",
                  "ArrowToInsertValuesWriter"}

\* C19: close() of the JSON-line and SQL-insert writers and of their adapters
\* changes neither the writer nor the sink, so nothing of a later call is
\* rejected because of it; after close() of CsvWriter or ParquetDataWriter,
\* write_data raises and writes nothing until write_header is called again
C19_AfterClose ==
    [][/\ (Step("close") /\ self.cls \in ClosesNothing)
             => (call'.exc = None /\ self' = self /\ sink' = sink)
       /\ (/\ Step("write_data")
           /\ hist.closed
           /\ self.cls \in {"CsvWriter", "ParquetDataWriter"}
           /\ self.writer = None)
             => (call'.exc # None /\ sink' = sink)]_vars

\* a ParquetDataWriter that wrote a header, was closed and then refused rows
C19_Witness ==
    /\ self.cls = "ParquetDataWriter"
    /\ hist.closed
    /\ hist.headers = 1
    /\ call.op = "write_data"
    /\ call.arg # <<>>
    /\ call.exc = "AttributeError"
    /\ sink # <<>>

\* s is an initial part of t
IsPrefix(s, t) == Len(s) <= Len(t) /\ SubSeq(t, 1, Len(s)) = s

BatchesWritten == (Len(sink') - Len(sink)) - (self'.built - self.built)

RECURSIVE RowsIn(_, _)
\* the rows of the first n batches
RowsIn(batches, n) ==
    IF n = 0 THEN 0 ELSE Len(batches[n].pylist) + RowsIn(batches, n - 1)

\* a write_data step of an ArrowToCsvWriter
CsvBatchStep == Step("write_data") /\ self.cls = "ArrowToCsvWriter"

\* the step wrote the batches before the first one whose schema is not the
\* given one and counted their rows; it raised InvalidDataItem iff there is
\* such a batch
StopsAtOtherSchema(schema) ==
    LET arg == call'.arg
        n == BatchesWritten
    IN  /\ n \in 0..Len(arg)
        /\ \A k \in 1..n : arg[k].schema = schema
        /\ self'.items_count = self.items_count + RowsIn(arg, n)
        /\ n < Len(arg) => (arg[n + 1].schema # schema /\ call'.exc = "InvalidDataItem")
        /\ n = Len(arg) => call'.exc = None

\* C21 as stated: every batch an ArrowToCsvWriter writes has the schema of
\* the first batch it ever wrote, a batch with another schema raises
\* InvalidDataItem and is neither written nor counted
C21_Original ==
    [][(CsvBatchStep /\ call'.arg # <<>>) => StopsAtOtherSchema(hist'.first_schema)]_vars

\* C21: every batch an ArrowToCsvWriter writes has the schema of the first
\* batch written since its encoder was built, that is since construction or
\* since the last close(); a batch with another schema raises InvalidDataItem
\* and neither it nor a later batch of the call is written or counted
C21_SchemaOfEncoder ==
    [][(CsvBatchStep /\ call'.arg # <<>>) =>
          /\ StopsAtOtherSchema(self'.first_schema)
          /\ self.writer = "open" => self'.first_schema = self.first_schema]_vars

\* a second batch with another schema has been refused: one batch is in the
\* sink and counted
C21_Witness ==
    /\ self.cls = "ArrowToCsvWriter"
    /\ call.op = "write_data"
    /\ call.exc = "InvalidDataItem"
    /\ Len(call.arg) = 2
    /\ Len(Written) = 2
    /\ self.items_count = 2

\* a csv header line for the given column names
CsvHeaderLine(names) == Join([i \in DOMAIN names |-> "\"" \o names[i] \o "\""], ",")

\* the header lines in the sink
HeaderLines ==
    {i \in DOMAIN sink :
        \E names \in {<<"a", "b">>, <<"b", "a">>, <<"a", "x">>} :
           sink[i] \in {CsvHeaderLine(names), CsvHeaderLine(names) \o "\n"}}

\* C22: write_footer of an ArrowToCsvWriter that has not been closed writes
\* the header line of the declared columns, in declared order, if no batch
\* was written since construction and nothing if a batch was written; after
\* the first write_footer the sink holds exactly one header line
C22_HeaderOnce ==
    (/\ self.cls = "ArrowToCsvWriter"
     /\ call.op = "write_footer"
     /\ call.exc = None
     /\ ~hist.closed)
    => /\ self.built = 0 =>
             Written = <<CsvHeaderLine([i \in DOMAIN self.columns_schema |->
                                           self.columns_schema[i].name])>>
       /\ self.built > 0 => Written = <<>>
       /\ hist.footers = 1 => (sink # <<>> /\ Cardinality(HeaderLines) = 1)

\* write_header and write_footer with no batch in between: the sink is the
\* one header line
C22_Witness ==
    /\ self.cls = "ArrowToCsvWriter"
    /\ call.op = "write_footer"
    /\ call.exc = None
    /\ hist.ops = 2
    /\ hist.headers = 1
    /\ sink = <<"\"b\",\"a\"">>

\* ------------------------------------------------ the adapted writers

\* the instance as an instance of the row-object class its adapter wraps
AsWrapped == [self EXCEPT !.cls = Wrapped(self.cls)]

\* what the wrapped class does for the call of the step, given the rows of
\* the batch as row mappings
WrappedCall ==
    CASE call'.op = "write_header" -> write_header(AsWrapped, call'.arg)
      [] call'.op = "write_data" -> write_data(AsWrapped, call'.arg[1].pylist)
      [] OTHER -> write_footer(AsWrapped)

\* C23: every write_header, write_data of one columnar batch of N >= 0 rows
\* and write_footer of an adapted writer appends to the sink what the wrapped
\* row-object writer appends for the same call with the rows as row mappings,
\* leaves the same items_count and has the same outcome, so the two sequences
\* header, data, footer leave the same sink and the same items_count
C23_AdapterAsWrapped ==
    [][(/\ IsAdapted
        /\ Step("write_header") \/ Step("write_data") \/ Step("write_footer")
        /\ Step("write_data") => Len(call'.arg) = 1)
       => /\ sink' = sink \o WrappedCall.out
          /\ self'.items_count = WrappedCall.self.items_count
          /\ call'.exc = WrappedCall.exc]_vars

\* header, one batch of two rows and footer on the adapted SQL-insert writer
C23_Witness ==
    /\ self.cls = "ArrowToInsertValuesWriter"
    /\ hist.ops = 3
    /\ hist.headers = 1
    /\ call.op = "write_footer"
    /\ hist.records_ok = 2
    /\ self.items_count = 2
    /\ Written = <<";">>

\* ------------------------------------------------ schemas and capabilities

\* the four JSON-line writers
JsonLine == {"JsonlWriter", "TypedJsonlListWriter", "ArrowToJsonlWriter",
             "ArrowToTypedJsonlListWriter"}

\* a write_header(None) step
HeaderWithoutSchema == Step("write_header") /\ call'.arg = NoSchema

\* C24 as stated: write_header(None) fails with SchemaRequired and writes
\* nothing on the SQL-insert writers and on both parquet writers, and
\* write_header is a no-op on the JSON-line writers
C24_Original ==
    [][/\ (/\ HeaderWithoutSchema
           /\ IsInsertValues \/ self.cls \in {"ParquetDataWriter", "ArrowToParquetWriter"})
          => (call'.exc = "SchemaRequired" /\ sink' = sink)
       /\ (Step("write_header") /\ self.cls \in JsonLine) => NoOp]_vars

\* C24: write_header(None) writes nothing; it fails with AssertionError on
\* the SQL-insert writers, leaving the writer as it was, and with
\* AttributeError on ParquetDataWriter, and it returns on
\* ArrowToParquetWriter, which takes its schema from the batches; on the
\* JSON-line writers write_header is a no-op whatever the schema
C24_HeaderWithoutSchema ==
    [][/\ (HeaderWithoutSchema /\ IsInsertValues)
          => (call'.exc = "AssertionError" /\ sink' = sink /\ self' = self)
       /\ (HeaderWithoutSchema /\ self.cls = "ParquetDataWriter")
          => (call'.exc = "AttributeError" /\ sink' = sink /\ self' = self)
       /\ (HeaderWithoutSchema /\ self.cls = "ArrowToParquetWriter")
          => (call'.exc = None /\ sink' = sink)
       /\ (Step("write_header") /\ self.cls \in JsonLine) => NoOp]_vars

\* a new InsertValuesWriter has refused a header without a schema
C24_Witness ==
    /\ self.cls = "InsertValuesWriter"
    /\ call.op = "write_header"
    /\ call.arg = NoSchema
    /\ call.exc = "AssertionError"
    /\ hist.ops = 1
    /\ sink = <<>>

\* ------------------------------------------------ close and the encoder

\* C25: a close() that follows a close() raises no error, finalizes nothing
\* and leaves the writer and the sink as the first close() left them, for
\* every writer
C25_CloseTwice ==
    [][(Step("close") /\ call.op = "close")
       => (call'.exc = None /\ self' = self /\ sink' = sink)]_vars

\* a ParquetDataWriter that built its encoder and was closed twice: the
\* second close() wrote nothing after the footer of the first
C25_Witness ==
    /\ self.cls = "ParquetDataWriter"
    /\ call.op = "close"
    /\ hist.ops = 3
    /\ ~hist.errored
    /\ self.built = 1
    /\ self.finalized = 1
    /\ sink = <<"PAR1", "parquet-footer">>
    /\ call.sink_before = 2

\* C26 as stated: after close() the writer holds no encoder and every
\* encoder it built has been finalized exactly once, whatever was called
\* before
C26_Original ==
    call.op = "close" => (self.writer # "open" /\ self.finalized = self.built)

\* C26: after close() the writer holds no encoder, and every encoder it built
\* has been finalized exactly once, whatever was called before and whether
\* or not it raised, unless write_header was called more than once on a
\* ParquetDataWriter: an encoder replaced by a later write_header is not
\* finalized by the writer
C26_EncoderReleased ==
    call.op = "close" =>
        /\ call.exc = None
        /\ self.writer # "open"
        /\ self.finalized <= self.built
        /\ (self.cls # "ParquetDataWriter" \/ hist.headers <= 1)
              => self.finalized = self.built

\* an ArrowToCsvWriter closed after a write_data that raised: its one
\* encoder has been finalized
C26_Witness ==
    /\ self.cls = "ArrowToCsvWriter"
    /\ call.op = "close"
    /\ hist.errored
    /\ hist.ops = 2
    /\ self.built = 1
    /\ self.finalized = 1
    /\ self.writer = None

\* ---- the csv row writer ----

\* the cell the claim gives a row in a declared column
DeclaredCell(row, column) ==
    IF ~HasKey(row, column.name) \/ Get(row, column.name) = None THEN "\"\""
    ELSE LET value == Get(row, column.name) IN
         "\"" \o (CASE column.data_type = "complex" -> "json(" \o value \o ")"
                    [] column.data_type = "binary" -> "dec(" \o value \o ")"
                    [] OTHER -> value) \o "\""

\* the line the claim gives a row: one cell per declared column, in order
DeclaredLine(row, columns_schema) ==
    Join([i \in DOMAIN columns_schema |-> DeclaredCell(row, columns_schema[i])], ",")
        \o "\n"

\* C27: a CsvWriter write_data that returns has written one line per row, and
\* each line holds one cell per declared column (the columns of the last
\* write_header that returned) in declared order: an empty
\* cell for a column the row lacks, nothing for a row key that is not a
\* declared column, and the JSON string for a non-null value of a complex
\* column
C27_DeclaredCells ==
    (self.cls = "CsvWriter" /\ call.op = "write_data" /\ call.exc = None) =>
        /\ Len(Written) = Len(call.arg)
        /\ \A k \in DOMAIN call.arg :
              Written[k] = DeclaredLine(call.arg[k], hist.declared)

\* a batch written under the schema (a text, b complex): one row has the
\* undeclared key x and a non-null b, the other lacks a
C27_Witness ==
    /\ self.cls = "CsvWriter"
    /\ call.op = "write_data"
    /\ call.exc = None
    /\ hist.declared = <<Column("a", "text"), Column("b", "complex")>>
    /\ \E k \in DOMAIN call.arg :
          HasKey(call.arg[k], "x") /\ Get(call.arg[k], "b") = "b1"
    /\ \E k \in DOMAIN call.arg : ~HasKey(call.arg[k], "a")
    /\ Written = <<"\"s2\",\"json(b1)\"\n", "\"\",\"json(bad)\"\n">>

\* ---- construction and the capabilities context ----

\* the writer class was constructed without a capabilities context
BuiltWithoutCaps(cls) ==
    call.op = "__init__" /\ call.arg = <<cls, None>>

\* the spec of the class sets requires_destination_capabilities
RequiresCaps(cls) == writer_spec(cls).requires_destination_capabilities

\* the writers built by ParquetDataWriter.__init__
ParquetWriters == {"ParquetDataWriter", "ArrowToParquetWriter"}

\* C28 as stated: construction without a capabilities context fails exactly
\* for the registered writers whose spec sets
\* requires_destination_capabilities
C28_Original ==
    \A cls \in Registered :
        BuiltWithoutCaps(cls) => (call.exc # None <=> RequiresCaps(cls))

\* C28: construction without a capabilities context fails, with
\* AssertionError and leaving no instance, for the SQL-insert writers
\* (InsertValuesWriter and its arrow adapter); ParquetDataWriter, whose spec
\* also sets requires_destination_capabilities, is constructed with the
\* generic parquet capabilities instead, as is ArrowToParquetWriter; every
\* writer whose spec does not set the flag is constructed
C28_WithoutCaps ==
    \A cls \in Registered :
        BuiltWithoutCaps(cls) =>
            /\ call.exc # None <=> (RequiresCaps(cls) /\ cls # "ParquetDataWriter")
            /\ call.exc # None => (call.exc = "AssertionError" /\ self = NoInstance)
            /\ call.exc = None => (self # NoInstance /\ self.cls = cls)
            /\ cls \in ParquetWriters => self.caps = "generic"
            /\ (call.exc = None /\ cls \notin ParquetWriters) => self.caps = None

\* the arrow adapter of the SQL-insert writer refused without capabilities
C28_Witness ==
    /\ BuiltWithoutCaps("ArrowToInsertValuesWriter")
    /\ RequiresCaps("ArrowToInsertValuesWriter")
    /\ call.exc = "AssertionError"
    /\ self = NoInstance

\* ---- the encoder slot ----

\* the writers that build their encoder from the first batch
BatchEncoders == {"ArrowToParquetWriter", "ArrowToCsvWriter"}

\* the schema the encoder of an instance was built from
EncoderSchema(s) == IF s.cls = "ArrowToCsvWriter" THEN s.first_schema ELSE s.schema

\* C29 as stated: an instance builds at most one encoder over its whole life
C29_Original == self.built <= 1

\* C29: an encoder is built only by ParquetDataWriter.write_header, or by
\* write_data of ArrowToParquetWriter and ArrowToCsvWriter when the slot is
\* empty, from the schema of the first batch of the call; so an instance
\* builds at most one encoder as long as close() has not been called on it
\* and, for ParquetDataWriter, write_header has been called at most once
C29_EncoderBuilt ==
    [][/\ self'.built \in {self.built, self.built + 1}
       /\ self'.built > self.built =>
             \/ self.cls = "ParquetDataWriter" /\ call'.op = "write_header"
             \/ /\ self.cls \in BatchEncoders
                /\ call'.op = "write_data"
                /\ self.writer # "open"
                /\ call'.arg # <<>>
                /\ EncoderSchema(self') = call'.arg[1].schema
       /\ (~hist'.closed /\ (self'.cls # "ParquetDataWriter" \/ hist'.headers <= 1))
             => self'.built <= 1]_vars

\* an ArrowToParquetWriter that has written batches in two calls, and was not
\* closed, has built one encoder
C29_Witness ==
    /\ self.cls = "ArrowToParquetWriter"
    /\ hist.chunks_ok = 2
    /\ ~hist.closed
    /\ call.op = "write_data"
    /\ call.exc = None
    /\ self.built = 1
    /\ self.writer = "open"

\* ---- undecodable bytes in a csv batch ----

\* the binary columns among the declared columns
BinaryColumns ==
    {hist.declared[i].name : i \in {j \in DOMAIN hist.declared :
                                       hist.declared[j].data_type = "binary"}}

\* the row has bytes in a binary column that the encoding cannot decode
Undecodable(row) ==
    \E name \in BinaryColumns : HasKey(row, name) /\ Get(row, name) = "bad"

\* C30: a CsvWriter write_data on a batch in which some row has an
\* undecodable value in a binary column raises InvalidDataItem, writes no row
\* of the batch to the sink and leaves items_count as it was
C30_UndecodableBatch ==
    [][(/\ Step("write_data")
        /\ self.cls = "CsvWriter"
        /\ \E k \in DOMAIN call'.arg : Undecodable(call'.arg[k]))
          => /\ call'.exc = "InvalidDataItem"
             /\ sink' = sink
             /\ self'.items_count = self.items_count]_vars

\* a batch whose second row cannot be decoded was refused after rows had
\* been written: the first row was converted, and nothing of the batch was
\* written or counted
C30_Witness ==
    /\ self.cls = "CsvWriter"
    /\ call.op = "write_data"
    /\ Len(call.arg) = 2
    /\ ~Undecodable(call.arg[1])
    /\ Undecodable(call.arg[2])
    /\ call.exc = "InvalidDataItem"
    /\ Get(call.arg_after[1], "b") = "dec(b1)"
    /\ Written = <<>>
    /\ hist.records_ok = 1
    /\ self.items_count = 3

\* ---- the formats the resolver returns ----

\* C31: every spec resolve_best_writer_spec returns has the requested
\* item_format as its data_item_format and a file_format that is one of
\* possible_file_formats
C31_ListedFormatOnly ==
    (ResolveDone /\ result.kind = "return") =>
        /\ result.spec.data_item_format = item_format
        /\ \E k \in DOMAIN possible_file_formats :
              result.spec.file_format = possible_file_formats[k]

\* C31 witness: a call with a preferred format returned the spec of an
\* adapted writer for a later candidate, after the preferred format and an
\* earlier candidate gave nothing
C31_Witness ==
    /\ ResolveDone
    /\ result.kind = "return"
    /\ preferred_format # None
    /\ Len(possible_file_formats) = 3
    /\ result.spec.file_format = possible_file_formats[3]
    /\ result.spec.file_format # preferred_format
    /\ result.spec.file_format # possible_file_formats[1]
    /\ result.spec.file_format # possible_file_formats[2]
    /\ result.spec \in {writer_spec(w) : w \in AdapterBuilt}

\* ---- the header and the rows of an insert statement ----

\* the places of the sink where a header starts
HeaderStarts == {i \in DOMAIN sink : sink[i] = "INSERT INTO {}("}

\* the places of the sink where a row starts
RowStarts == {i \in DOMAIN sink : sink[i] \in {"(", "SELECT "}}

\* every row in the sink has a header before it
RowsHaveHeader == \A j \in RowStarts : \E i \in HeaderStarts : i < j

\* no header in the sink comes after a row
NoHeaderAfterRow == \A i \in HeaderStarts : \A j \in RowStarts : i < j

\* C32 as stated: in every sink content of an InsertValuesWriter the header
\* precedes every row and no header comes after a row
C32_Original ==
    IsInsertValues => (RowsHaveHeader /\ NoHeaderAfterRow)

\* C32: InsertValuesWriter.write_header fails with AssertionError and writes
\* nothing once a write_data with a non-empty chunk has returned; every row
\* in the sink has a header before it; and no header comes after a row as
\* long as no call on the instance has raised (a write_data that raises
\* part-way leaves rows in the sink that do not count as a chunk, and a later
\* write_header writes a header after them)
C32_HeaderBeforeRows ==
    [][IsInsertValues' =>
          /\ (Step("write_header") /\ hist.chunks_ok > 0)
                => (call'.exc = "AssertionError" /\ sink' = sink)
          /\ RowsHaveHeader'
          /\ ~hist'.errored => NoHeaderAfterRow']_vars

\* a second write_header after a written chunk was refused, and the sink is
\* the header followed by the rows
C32_Witness ==
    /\ self.cls = "InsertValuesWriter"
    /\ call.op = "write_header"
    /\ call.exc = "AssertionError"
    /\ call.arg \in ColumnSchemas
    /\ hist.headers = 2
    /\ hist.chunks_ok = 1
    /\ Written = <<>>
    /\ RowStarts # {}
    /\ NoHeaderAfterRow

\* ---- the footer of the arrow parquet writer ----

\* a write_footer step of an ArrowToParquetWriter
ParquetFooterStep == Step("write_footer") /\ self.cls = "ArrowToParquetWriter"

\* C33 as stated: ArrowToParquetWriter.write_footer raises if and only if no
\* batch has been handed to the instance since construction, and otherwise
\* returns and writes nothing
C33_Original ==
    [][ParquetFooterStep =>
          /\ call'.exc = (IF hist.fed THEN None ELSE "NotImplementedError")
          /\ sink' = sink]_vars

\* C33: ArrowToParquetWriter.write_footer raises NotImplementedError if and
\* only if no batch has been handed to the instance since construction or
\* since the last close(), a write_data with an empty sequence not counting;
\* otherwise it returns; in both cases it writes nothing
C33_FooterNeedsBatch ==
    [][ParquetFooterStep =>
          /\ call'.exc = (IF hist.fed_open THEN None ELSE "NotImplementedError")
          /\ sink' = sink
          /\ self' = self]_vars

\* write_data with an empty sequence followed by write_footer, which raised
C33_Witness ==
    /\ self.cls = "ArrowToParquetWriter"
    /\ call.op = "write_footer"
    /\ call.exc = "NotImplementedError"
    /\ hist.ops = 2
    /\ hist.footers = 1
    /\ hist.headers = 0
    /\ ~hist.closed
    /\ ~hist.fed
    /\ sink = <<>>

\* ---- the migration of a pipeline state ----

\* a migrate_pipeline_state call has ended
MigrateDone == x_pc = "done" /\ x_fn = "migrate_pipeline_state"

\* the call raised PipelineStateEngineNoUpgradePathException
NoUpgradePath == x_result = "PipelineStateEngineNoUpgradePathException"

\* the engines the claim says can be migrated
Upgradable(from, to) == from = to \/ (1 <= from /\ from < to /\ to <= 4)

\* the steps from one engine up to another, in increasing order
StepsBetween(from, to) == [i \in 1..(to - from) |-> from + i - 1]

\* C34: migrate_pipeline_state returns exactly when from_engine = to_engine
\* or 1 <= from_engine < to_engine <= 4, and raises otherwise; a call that
\* returns with from_engine < to_engine has applied the steps from_engine,
\* ..., to_engine - 1 in increasing order, each once, and left
\* _state_engine_version = to_engine; a call with from_engine = to_engine
\* applies no step and leaves every field of the state as it was
C34_UpgradePath ==
    MigrateDone =>
        LET from == m_call.from_engine IN
        /\ x_result = "return" <=> Upgradable(from, to_engine)
        /\ x_result # "return" => NoUpgradePath
        /\ (x_result = "return" /\ from < to_engine) =>
              /\ m_call.steps = StepsBetween(from, to_engine)
              /\ state["_state_engine_version"] = to_engine
              /\ from = 1 => state["_local"] = "{}"
              /\ from > 1 => state["_local"] = m_call.state["_local"]
              /\ to_engine < 4 => state["destination"] = m_call.state["destination"]
              /\ to_engine = 4 =>
                    /\ state["destination"] \in {Absent, None}
                    /\ state["staging"] = Absent
                    /\ m_call.state["destination"] \notin {Absent, None}
                          => state["destination_type"] = m_call.state["destination"]
        /\ from = to_engine => (state = m_call.state /\ m_call.steps = <<>>)

\* a state of engine 1 with a destination and a staging migrated to engine 4
C34_Witness ==
    /\ MigrateDone
    /\ x_result = "return"
    /\ m_call.from_engine = 1
    /\ to_engine = 4
    /\ m_call.steps = <<1, 2, 3>>
    /\ state["_state_engine_version"] = 4
    /\ state["destination_name"] = "duckdb"
    /\ state["staging_name"] = "filesystem"
    /\ state["destination"] = Absent

\* C35 as stated: when the call raises
\* PipelineStateEngineNoUpgradePathException the caller's state is as it was
\* before the call and no step has been applied
C35_Original ==
    (MigrateDone /\ NoUpgradePath) =>
        (state = m_call.state /\ m_call.steps = <<>>)

\* C35, what holds: when the call raises, _state_engine_version has its value
\* from before the call; the steps from from_engine up to engine 4 have been
\* applied to the caller's state exactly when 1 <= from_engine <= 3 and
\* to_engine > 4, and otherwise the state is as it was
C35_VersionKept ==
    (MigrateDone /\ NoUpgradePath) =>
        LET from == m_call.from_engine IN
        /\ state["_state_engine_version"] = m_call.state["_state_engine_version"]
        /\ (from \in 1..3 /\ to_engine > 4) => m_call.steps = StepsBetween(from, 4)
        /\ ~(from \in 1..3 /\ to_engine > 4) =>
              (m_call.steps = <<>> /\ state = m_call.state)

\* a call from engine 1 to engine 5 raised after it had applied every step to
\* the caller's state
C35_Witness ==
    /\ MigrateDone
    /\ NoUpgradePath
    /\ m_call.from_engine = 1
    /\ to_engine = 5
    /\ m_call.steps = <<1, 2, 3>>
    /\ state # m_call.state
    /\ state["_local"] = "{}"
    /\ state["destination"] = Absent
    /\ state["destination_name"] = "duckdb"
    /\ state["_state_engine_version"] = 1

\* ---- the stored state of a pipeline ----

\* a get_stored_state call is in progress or has ended
InGetStoredState == x_fn = "get_stored_state"

\* the load ids of the state records that have a loads record
Loaded == state_table \cap loads_table

\* the number of state records newer than the given one, itself included
Rank(id) == Cardinality({i \in state_table : i >= id})

\* the number of pages of 10 that hold n records
PagesFor(n) == (n + 9) \div 10

\* C36: get_stored_state requests the state records newest first in
\* consecutive pages of 10 and no page beyond the one that settles the call;
\* it returns the newest state whose load id has a record in the loads
\* table, None when no state record has one, never a state without a loads
\* record; and every call ends
C36_NewestLoadedState ==
    /\ [](InGetStoredState =>
            /\ \A k \in DOMAIN g_pages :
                  g_pages[k] = [offset |-> 10 * (k - 1), limit |-> 10]
            /\ x_pc = "done" =>
                  /\ Loaded = {} =>
                        /\ x_result = None
                        /\ Len(g_pages) = PagesFor(Cardinality(state_table)) + 1
                  /\ Loaded # {} =>
                        \E id \in Loaded :
                           /\ \A other \in Loaded : other <= id
                           /\ x_result = "StateInfo(" \o ToString(id) \o ")"
                           /\ Len(g_pages) = PagesFor(Rank(id)))
    /\ (InGetStoredState ~> (InGetStoredState /\ x_pc = "done"))

\* twelve state records of which the two oldest have a loads record: the
\* call read two pages and returned the newer of the two
C36_Witness ==
    /\ InGetStoredState
    /\ x_pc = "done"
    /\ state_table = 1..12
    /\ loads_table = {1, 2}
    /\ x_result = "StateInfo(2)"
    /\ Len(g_pages) = 2

\* the Weaviate errors: the classes below weaviate.exceptions.WeaviateBaseError
IsWeaviateError(ex) == ex.class # None /\ "WeaviateBaseError" \in ex.mro

\* a wrap_weaviate_error call that has finished
WrapDone == x_pc = "done" /\ x_fn = "wrap_weaviate_error"

\* the 422 messages that name a property conflict or a missing vectorizer
ConflictMessages ==
    {<<"name", "conflict", "for", "property", "value">>,
     <<"has", "none", "vectorizer", "module">>}

\* C37: every Weaviate error the wrapped call raises reaches the caller as
\* exactly one destination error: 404 as DestinationUndefinedEntity; 403, 422
\* without a conflict message and the object-exists, schema-validation and
\* embedded-version errors as DestinationTerminalException; 422 with a
\* property-conflict or none-vectorizer message as PropertyNameConflict; every
\* other status code and every other Weaviate error as
\* DestinationTransientException
C37_ErrorMapping ==
    (WrapDone /\ IsWeaviateError(p_args[1])) =>
        LET ex == p_args[1]
            status == ex.class = "UnexpectedStatusCodeException"
            terminal == ex.class \in {"ObjectAlreadyExistsException",
                                      "SchemaValidationException",
                                      "WeaviateEmbeddedInvalidVersion"}
        IN  /\ x_result \in {"DestinationUndefinedEntity", "DestinationTerminalException",
                              "PropertyNameConflict", "DestinationTransientException"}
            /\ x_result = "DestinationUndefinedEntity"
                  <=> (status /\ ex.status_code = 404)
            /\ x_result = "PropertyNameConflict"
                  <=> (status /\ ex.status_code = 422 /\ ex.str \in ConflictMessages)
            /\ x_result = "DestinationTerminalException"
                  <=> \/ terminal
                      \/ status /\ ex.status_code = 403
                      \/ status /\ ex.status_code = 422 /\ ex.str \notin ConflictMessages
            /\ x_result = "DestinationTransientException"
                  <=> \/ status /\ ex.status_code \notin {404, 403, 422}
                      \/ ~status /\ ~terminal

\* a 422 whose message names a missing vectorizer was raised and mapped
C37_Witness ==
    /\ WrapDone
    /\ p_args[1].class = "UnexpectedStatusCodeException"
    /\ p_args[1].status_code = 422
    /\ p_args[1].str = <<"has", "none", "vectorizer", "module">>
    /\ x_result = "PropertyNameConflict"

\* the ids of two records of one class have been generated
UuidDone == x_pc = "done" /\ x_fn = "generate_uuid"

\* the two records hold the same values in every unique-identifier column
SameIdentifiers ==
    \A k \in DOMAIN p_args[3] : p_args[1][p_args[3][k]] = p_args[2][p_args[3][k]]

AddDone == x_pc = "done" /\ x_fn = "DataWriterMetrics.__add__"

\* the four fields an addition computes
Counted(m) == <<m.items_count, m.file_size, m.created, m.last_modified>>

\* C39: a + b sums items_count and file_size and takes the least created and
\* the greatest last_modified; on those four fields a + b = b + a and
\* (a + b) + c = a + (b + c), and adding EMPTY_DATA_WRITER_METRICS on either
\* side leaves a value with created <= 2**32 and last_modified >= 0 as it is
C39_MetricsMonoid ==
    AddDone =>
        LET a == p_args[1]
            b == p_args[2]
        IN  /\ x_result.ab.items_count = a.items_count + b.items_count
            /\ x_result.ab.file_size = a.file_size + b.file_size
            /\ x_result.ab.created \in {a.created, b.created}
            /\ x_result.ab.created <= a.created /\ x_result.ab.created <= b.created
            /\ x_result.ab.last_modified \in {a.last_modified, b.last_modified}
            /\ x_result.ab.last_modified >= a.last_modified
            /\ x_result.ab.last_modified >= b.last_modified
            /\ Counted(x_result.ab) = Counted(x_result.ba)
            /\ Counted(x_result.ab_c) = Counted(x_result.a_bc)
            /\ (a.created <= 65536 /\ a.last_modified >= 0) =>
                  /\ Counted(x_result.a_empty) = Counted(a)
                  /\ Counted(x_result.empty_a) = Counted(a)

\* three different metrics were added, the first one created exactly at
\* 2**32 and left as it is by the empty metrics
C39_Witness ==
    /\ AddDone
    /\ p_args[1].created = 65536 /\ p_args[1].last_modified = 0
    /\ p_args[1].items_count = 2
    /\ p_args[2].created = 5 /\ p_args[2].last_modified = 7
    /\ p_args[3].created = 65537 /\ p_args[3].last_modified = -1
    /\ Counted(x_result.ab_c) = <<p_args[2].items_count + p_args[3].items_count + 2,
                                  p_args[1].file_size + p_args[2].file_size
                                      + p_args[3].file_size, 5, 7>>
    /\ Counted(x_result.empty_a) = Counted(p_args[1])

====
